---- MODULE Spec2Model ----
(***************************************************************************)
(* A state-machine model of the argparse library: the argument registry,   *)
(* the name lookup (linear scan / hash table), the token-by-token parse    *)
(* driver with its converters, the typed accessors and the thread-local    *)
(* error state.  C strings are sequences of one-character strings; a C     *)
(* pointer to an Argument is the position of that Argument in the          *)
(* registry's linked list.                                                 *)
(***************************************************************************)
EXTENDS Integers, Sequences, FiniteSets, TLC

VARIABLES
    arguments,      \* parser->arguments: the linked list, in declaration order
    argument_count, \* parser->argument_count
    hash_table,     \* parser->hash_table: NoTable or [capacity, size, seed, buckets]
    hash_enabled,   \* parser->hash_enabled
    help_added,     \* parser->help_added
    help_requested, \* parser->help_requested
    program_name,   \* parser->program_name
    err,            \* g_last_error, g_message_buffer, g_error_occurred
    pc,             \* where the calling thread is: between calls, inside parse, exited
    argv,           \* the token vector given to argparse_parse
    i,              \* the cursor of the scan loop of argparse_parse
    helps,          \* how many times argparse_print_help wrote the help text
    validated,      \* whether the required-argument loop of this parse has run
    ret,            \* what the last accessor call returned
    heap            \* the blocks the parser's code got from malloc and has not freed

vars == <<arguments, argument_count, hash_table, hash_enabled, help_added,
          help_requested, program_name, err, pc, argv, i, helps, validated, ret, heap>>

(***************************************************************************)
(* C strings and characters                                                *)
(***************************************************************************)

\* The NULL char pointer (no C string is a sequence holding this element).
NULL == <<"NULL">>

\* The printable ASCII characters, code 32 (space) to 126 (~); the double quote,
\* the backslash and the backquote, which no name or token of the model uses, are
\* spelled out.
Ascii ==
    <<" ", "!", "dquote", "#", "$", "%", "&", "'", "(", ")", "*", "+", ",", "-", ".", "/",
      "0", "1", "2", "3", "4", "5", "6", "7", "8", "9", ":", ";", "<", "=", ">", "?",
      "@", "A", "B", "C", "D", "E", "F", "G", "H", "I", "J", "K", "L", "M", "N", "O",
      "P", "Q", "R", "S", "T", "U", "V", "W", "X", "Y", "Z", "[", "bslash", "]", "^", "_",
      "bquote", "a", "b", "c", "d", "e", "f", "g", "h", "i", "j", "k", "l", "m", "n", "o",
      "p", "q", "r", "s", "t", "u", "v", "w", "x", "y", "z", "{", "|", "}", "~">>

\* (unsigned char)c
Ord(c) == 31 + CHOOSE k \in 1..Len(Ascii) : Ascii[k] = c

Chr(n) == Ascii[n - 31]

isdigit(c) == Ord(c) \in 48..57

isalnum(c) == Ord(c) \in (48..57) \cup (65..90) \cup (97..122)

isspace(c) == c = " "

tolower(c) == IF Ord(c) \in 65..90 THEN Chr(Ord(c) + 32) ELSE c

\* strchr(s, c) as the 1-based position of the first c in s, 0 for NULL.
strchr(s, c) ==
    IF \E k \in 1..Len(s) : s[k] = c
    THEN CHOOSE k \in 1..Len(s) : s[k] = c /\ \A j \in 1..(k - 1) : s[j] # c
    ELSE 0

\* The rest of s from position k on (the C pointer s + (k - 1)).
StrFrom(s, k) == SubSeq(s, k, Len(s))

(***************************************************************************)
(* uint32_t arithmetic on words <<high 16 bits, low 16 bits>>              *)
(***************************************************************************)

\* a ^ b for a, b < 16, bit by bit.
XorNibble ==
    [a \in 0..15 |-> [b \in 0..15 |->
        (((a % 2) + (b % 2)) % 2)
        + 2 * ((((a \div 2) % 2) + ((b \div 2) % 2)) % 2)
        + 4 * ((((a \div 4) % 2) + ((b \div 4) % 2)) % 2)
        + 8 * (((a \div 8) + (b \div 8)) % 2)]]

\* a ^ b for a, b < 2^16.
XorBits(a, b) ==
    (XorNibble[a % 16][b % 16] + 16 * XorNibble[(a \div 16) % 16][(b \div 16) % 16])
    + 256 * (XorNibble[(a \div 256) % 16][(b \div 256) % 16]
             + 16 * XorNibble[a \div 4096][b \div 4096])

Xor32(x, y) == <<XorBits(x[1], y[1]), XorBits(x[2], y[2])>>

\* The low 16 bits of a * b, for a, b < 2^16.
MulLow16(a, b) == ((a % 256) * b + (((a \div 256) * b) % 256) * 256) % 65536

\* The high 16 bits of the 32-bit product a * b, for a, b < 2^16.
MulHigh16(a, b) ==
    LET p0 == (a % 256) * b
        p1 == (a \div 256) * b
        lo == (p0 % 65536) + (p1 % 256) * 256
    IN  (p0 \div 65536) + (p1 \div 256) + (lo \div 65536)

\* x * y modulo 2^32.
Mul32(x, y) ==
    <<(MulHigh16(x[2], y[2]) + MulLow16(x[1], y[2]) + MulLow16(x[2], y[1])) % 65536,
      MulLow16(x[2], y[2])>>

\* x >> 16 and x >> 13.
Shr16(x) == <<0, x[1]>>

Shr13(x) == <<x[1] \div 8192, (x[2] \div 8192) + (x[1] % 8192) * 8>>

FNV_PRIME == <<256, 403>>               \* 16777619U
FNV_OFFSET_BASIS == <<33052, 40389>>    \* 2166136261U
MIX1 == <<34283, 51819>>                \* 0x85ebca6b
MIX2 == <<49842, 44597>>                \* 0xc2b2ae35

\* One turn of the while loop of hash_string: hash ^= c; hash *= FNV_PRIME.
FnvStep(hash, c) == Mul32(Xor32(hash, <<0, c>>), FNV_PRIME)

\* The while loop of hash_string from the k-th character of str on.
RECURSIVE FnvLoop(_, _, _)
FnvLoop(hash, str, k) ==
    IF k > Len(str) THEN hash
    ELSE FnvLoop(FnvStep(hash, Ord(str[k])), str, k + 1)

\* hash ^= hash >> 16 and hash ^= hash >> 13.
XorShr16(hash) == Xor32(hash, Shr16(hash))

XorShr13(hash) == Xor32(hash, Shr13(hash))

\* hash_string(str, seed): seeded FNV-1a with the final avalanche.
hash_string(str, seed) ==
    XorShr16(Mul32(XorShr13(Mul32(XorShr16(FnvLoop(Xor32(FNV_OFFSET_BASIS, seed), str, 1)),
                                  MIX1)), MIX2))

(***************************************************************************)
(* The thread-local error state (argparse_error.c)                         *)
(***************************************************************************)

EINVAL == 22
ENOMEM == 12
ERANGE == 34

category_to_string(category) ==
    CASE category = "APE_SUCCESS" -> "SUCCESS"
      [] category = "APE_MEMORY" -> "MEMORY_ERROR"
      [] category = "APE_SYNTAX" -> "SYNTAX_ERROR"
      [] category = "APE_TYPE" -> "TYPE_ERROR"
      [] category = "APE_REQUIRED" -> "REQUIRED_ERROR"
      [] category = "APE_VALIDATION" -> "VALIDATION_ERROR"
      [] category = "APE_INTERNAL" -> "INTERNAL_ERROR"
      [] category = "APE_CONFIG" -> "CONFIG_ERROR"
      [] category = "APE_RANGE" -> "RANGE_ERROR"
      [] category = "APE_UNKNOWN_ARG" -> "UNKNOWN_ARGUMENT"
      [] category = "APE_DUPLICATE" -> "DUPLICATE_ARGUMENT"
      [] category = "APE_HELP_REQUESTED" -> "HELP_REQUESTED"
      [] OTHER -> "UNKNOWN_CATEGORY"

\* argparse_error_clear(): the state after memset(0) and g_error_occurred = false.
error_clear ==
    [occurred |-> FALSE, category |-> "APE_SUCCESS", errno_value |-> 0,
     argument_name |-> NULL, user_message |-> "", message |-> <<>>]

\* argparse_error_set(category, errno_val, __func__, __LINE__, arg_name, user_msg):
\* the state it leaves; message is g_message_buffer as the pieces snprintf joins.
error_set(category, errno_val, arg_name, user_msg) ==
    [occurred |-> TRUE,
     category |-> category,
     errno_value |-> errno_val,
     argument_name |-> IF arg_name # NULL THEN arg_name ELSE <<>>,
     user_message |-> user_msg,
     message |->
        IF user_msg # ""
        THEN IF arg_name # NULL /\ arg_name # <<>>
             THEN <<"[", category_to_string(category), "] Argument '">> \o arg_name
                      \o <<"': ", user_msg, ".">>
             ELSE <<"[", category_to_string(category), "] ", user_msg, ".">>
        ELSE IF arg_name # NULL /\ arg_name # <<>>
             THEN <<"[", category_to_string(category), "] Argument '">> \o arg_name
                      \o <<"'.">>
             ELSE <<"[", category_to_string(category), "]">>]

\* argparse_error_is_fatal() of an error state.
error_is_fatal(e) == e.category \notin {"APE_HELP_REQUESTED", "APE_SUCCESS"}

(***************************************************************************)
(* Argument definitions and the lookup index (argparse.c, argparse_hash.c) *)
(***************************************************************************)

ARGPARSE_HASH_THRESHOLD == 16
ARGPARSE_HASH_TABLE_SIZE == 256
\* ARGPARSE_HASH_LOAD_FACTOR 0.75f, as the fraction LOAD_NUM / LOAD_DEN.
LOAD_NUM == 3
LOAD_DEN == 4

\* A zero suffix character (GNU-joined form disabled).
NUL == "NUL"

ListTypes == {"ARG_INT_LIST", "ARG_DOUBLE_LIST", "ARG_STRING_LIST"}

is_list_type(type) == type \in ListTypes

\* create_default_value(type): the content of the freshly allocated box (the model
\* has no allocation failure); ARG_STRING gets the NULL pointer.
create_default_value(type) ==
    CASE type = "ARG_INT" -> 0
      [] type = "ARG_DOUBLE" -> [negative |-> FALSE, whole |-> 0, fraction |-> <<>>]
      [] type = "ARG_BOOL" -> FALSE
      [] type = "ARG_STRING" -> NULL
      [] OTHER -> <<>>

\* The "(unnamed)" literal.
Unnamed == <<"(", "u", "n", "n", "a", "m", "e", "d", ")">>

\* arg->long_name ? arg->long_name : arg->short_name ? arg->short_name : "(unnamed)"
long_first_name(arg) ==
    IF arg.long_name # NULL THEN arg.long_name
    ELSE IF arg.short_name # NULL THEN arg.short_name ELSE Unnamed

\* arg->short_name ? arg->short_name : arg->long_name ? arg->long_name : "(unnamed)"
short_first_name(arg) ==
    IF arg.short_name # NULL THEN arg.short_name
    ELSE IF arg.long_name # NULL THEN arg.long_name ELSE Unnamed

\* A block of the C heap, named by the pointer that holds it: the field (role) of
\* the Argument at position k, of its list node n, or of the index entry of key.
Block(role, k, n, key) == <<role, k, n, key>>

\* The heap before argparse_new: nothing allocated; lost counts the blocks whose
\* only pointer was overwritten, bad the calls of free on a block that is not
\* allocated; fail holds the blocks for which malloc, calloc or strdup returns
\* NULL in the call under way.
NoHeap == [live |-> {}, lost |-> 0, bad |-> 0, fail |-> {}]

\* malloc, calloc, strdup: the block b allocated and stored where b names.
malloc(h, b) ==
    IF b \in h.live THEN [h EXCEPT !.lost = @ + 1] ELSE [h EXCEPT !.live = @ \cup {b}]

\* free(b)
free(h, b) ==
    IF b \in h.live THEN [h EXCEPT !.live = @ \ {b}] ELSE [h EXCEPT !.bad = @ + 1]

\* One malloc for each block of the set S.
malloc_each(h, S) ==
    [h EXCEPT !.live = @ \cup S, !.lost = @ + Cardinality(S \cap h.live)]

\* One free for each block of the set S.
free_each(h, S) ==
    [h EXCEPT !.live = @ \ S, !.bad = @ + Cardinality(S \ h.live)]

\* parser->hash_table == NULL
NoTable == [capacity |-> 0, size |-> 0, seed |-> <<0, 0>>, buckets |-> <<>>]

\* hash & (capacity - 1), for a capacity that is a power of two up to 2^16.
bucket_index(table, key) == hash_string(key, table.seed)[2] % table.capacity

\* argparse_hash_create_internal(), with the seed secure_random_seed returned.
hash_create_internal(seed) ==
    [capacity |-> ARGPARSE_HASH_TABLE_SIZE, size |-> 0, seed |-> seed,
     buckets |-> [b \in 1..ARGPARSE_HASH_TABLE_SIZE |-> <<>>]]

\* Every entry of buckets lo..hi in the order hash_table_resize visits them: bucket
\* by bucket, each chain from its head.
RECURSIVE chain_walk(_, _, _)
chain_walk(buckets, lo, hi) ==
    IF lo > hi THEN <<>>
    ELSE IF lo = hi THEN buckets[lo]
    ELSE chain_walk(buckets, lo, (lo + hi) \div 2)
             \o chain_walk(buckets, ((lo + hi) \div 2) + 1, hi)

\* The positions among the first n of walk whose entry goes to the new bucket b.
new_chain_from(indices, b, n) == {m \in 1..n : indices[m] = b}

\* The entries among the first n of walk whose new bucket is b, the last visited
\* first: each visited entry goes to the head of its new bucket.
new_chain(walk, indices, b, n) ==
    [j \in 1..Cardinality(new_chain_from(indices, b, n)) |->
        walk[CHOOSE m \in new_chain_from(indices, b, n) :
                Cardinality({x \in new_chain_from(indices, b, n) : x >= m}) = j]]

\* The new bucket array of hash_table_resize, given the visited entries and the
\* new bucket index of each.
rehash_all(walk, indices, new_capacity) ==
    [b \in 1..new_capacity |-> new_chain(walk, indices, b - 1, Len(walk))]

\* The new bucket index of every visited entry: hash & (new_capacity - 1).
new_indices(walk, seed, new_capacity) ==
    SubSeq([k \in 1..Len(walk) |-> hash_string(walk[k].key, seed)[2] % new_capacity],
           1, Len(walk))

rehash_walk(walk, seed, new_capacity) ==
    rehash_all(walk, new_indices(walk, seed, new_capacity), new_capacity)

\* hash_table_resize(table): capacity doubled, every entry put at the head of its
\* new bucket.
hash_table_resize(table) ==
    [table EXCEPT
        !.capacity = table.capacity * 2,
        !.buckets = rehash_walk(chain_walk(table.buckets, 1, table.capacity),
                                table.seed, table.capacity * 2)]

\* hash_insert_at that does not count the new entry.
hash_insert_at_uncounted(t, index, key, arg) ==
    IF \E k \in 1..Len(t.buckets[index + 1]) : t.buckets[index + 1][k].key = key
    THEN [t EXCEPT !.buckets[index + 1] =
             [k \in 1..Len(@) |->
                 IF @[k].key = key /\ \A j \in 1..(k - 1) : @[j].key # key
                 THEN [@[k] EXCEPT !.argument = arg] ELSE @[k]]]
    ELSE [t EXCEPT !.buckets[index + 1] = <<[key |-> key, argument |-> arg]>> \o @]

\* The tail of argparse_hash_insert_internal once the bucket index is known: the
\* entry with this key updated in place, else a new entry at the head of the chain.
hash_insert_at(t, index, key, arg) ==
    IF \E k \in 1..Len(t.buckets[index + 1]) : t.buckets[index + 1][k].key = key
    THEN [t EXCEPT !.buckets[index + 1] =
             [k \in 1..Len(@) |->
                 IF @[k].key = key /\ \A j \in 1..(k - 1) : @[j].key # key
                 THEN [@[k] EXCEPT !.argument = arg] ELSE @[k]]]
    ELSE [t EXCEPT !.buckets[index + 1] = <<[key |-> key, argument |-> arg]>> \o @,
                   !.size = @ + 1]

\* argparse_hash_insert_internal after its load-factor check.
hash_insert_sized(t, key, arg) == hash_insert_at(t, bucket_index(t, key), key, arg)

\* argparse_hash_insert_internal(table, key, arg): the table afterwards.
hash_insert_internal(table, key, arg) ==
    IF table = NoTable \/ key = NULL \/ arg = 0 THEN table
    ELSE hash_insert_sized(IF table.size * LOAD_DEN > LOAD_NUM * table.capacity
                           THEN hash_table_resize(table) ELSE table,
                           key, arg)

\* The table argparse_hash_insert_internal works on behind its load-factor check.
hash_sized(table) ==
    IF table.size * LOAD_DEN > LOAD_NUM * table.capacity
    THEN hash_table_resize(table) ELSE table

\* The search of one bucket chain: the Argument pointer, 0 for NULL.
chain_lookup(chain, key) ==
    IF \E k \in 1..Len(chain) : chain[k].key = key
    THEN chain[CHOOSE k \in 1..Len(chain) :
                   chain[k].key = key /\ \A j \in 1..(k - 1) : chain[j].key # key].argument
    ELSE 0

\* argparse_hash_lookup_internal(table, key): the Argument pointer, 0 for NULL.
hash_lookup_internal(table, key) ==
    chain_lookup(table.buckets[bucket_index(table, key) + 1], key)

\* argparse_hash_insert_internal(table, key, arg) returns false for want of
\* memory: the new bucket array of a resize that is due, or the entry or the key
\* copy of a key the table does not hold, is among the blocks fail.
hash_insert_fails(table, key, fail) ==
    IF table = NoTable \/ key = NULL THEN FALSE
    ELSE IF table.size * LOAD_DEN > LOAD_NUM * table.capacity
            /\ Block("buckets", 0, 0, <<>>) \in fail
    THEN TRUE
    ELSE /\ hash_lookup_internal(hash_sized(table), key) = 0
         /\ {Block("entry", 0, 0, key), Block("key", 0, 0, key)} \cap fail # {}

\* The table after argparse_hash_insert_internal(table, key, arg) when the
\* allocations of the blocks fail return NULL: a failed resize leaves the table
\* as it is, a failed entry or key copy leaves it without the key.
hash_insert_alloc(table, key, arg, fail) ==
    IF ~hash_insert_fails(table, key, fail) THEN hash_insert_internal(table, key, arg)
    ELSE IF table.size * LOAD_DEN > LOAD_NUM * table.capacity
            /\ Block("buckets", 0, 0, <<>>) \in fail
    THEN table
    ELSE hash_sized(table)

\* The error state argparse_hash_insert_internal(table, key, arg) leaves, for a
\* table and a key that are not NULL.
hash_insert_error(table, key, fail) ==
    IF ~hash_insert_fails(table, key, fail) THEN error_clear
    ELSE IF table.size * LOAD_DEN > LOAD_NUM * table.capacity
            /\ Block("buckets", 0, 0, <<>>) \in fail
    THEN error_set("APE_MEMORY", ENOMEM, NULL, "Memory allocation failed.")
    ELSE error_set("APE_MEMORY", ENOMEM, key, "Memory allocation failed.")

\* The linear search of argparse_hash_find_argument / argparse_hash_is_argument:
\* the first Argument whose short or long name is name, 0 for NULL.
linear_search(args, name) ==
    IF \E k \in 1..Len(args) : args[k].short_name = name \/ args[k].long_name = name
    THEN CHOOSE k \in 1..Len(args) :
            /\ args[k].short_name = name \/ args[k].long_name = name
            /\ \A j \in 1..(k - 1) : args[j].short_name # name /\ args[j].long_name # name
    ELSE 0

\* argparse_hash_find_argument(parser, name): the Argument pointer, 0 for NULL.
hash_find_argument(P, name) ==
    IF name = NULL \/ name = <<>> THEN 0
    ELSE IF P.hash_enabled /\ P.hash_table # NoTable
         THEN hash_lookup_internal(P.hash_table, name)
         ELSE linear_search(P.arguments, name)

\* The error state argparse_hash_find_argument leaves.
hash_find_error(name) ==
    IF name = NULL \/ name = <<>>
    THEN error_set("APE_INTERNAL", EINVAL,
                   IF name # NULL THEN name ELSE <<"(", "n", "u", "l", "l", ")">>,
                   "Invalid parameters to argument lookup.")
    ELSE error_clear

\* argparse_hash_is_argument(parser, str)
hash_is_argument(P, str) == hash_find_argument(P, str) # 0

\* if (arg->short_name) insert(short_name); if (arg->long_name) insert(long_name):
\* the two guarded inserts of the Argument at position k.
insert_if_named(table, key, k, fail) ==
    IF key # NULL THEN hash_insert_alloc(table, key, k, fail) ELSE table

insert_names(table, arg, k, fail) ==
    insert_if_named(insert_if_named(table, arg.short_name, k, fail), arg.long_name, k, fail)

\* The error state the two guarded inserts of the Argument arg leave: that of the
\* last insert made, e if arg has no name.
insert_names_error(table, arg, k, fail, e) ==
    IF arg.long_name # NULL
    THEN hash_insert_error(insert_if_named(table, arg.short_name, k, fail), arg.long_name,
                           fail)
    ELSE IF arg.short_name # NULL THEN hash_insert_error(table, arg.short_name, fail)
    ELSE e

RECURSIVE insert_all(_, _, _, _)
insert_all(table, args, k, fail) ==
    IF table = NoTable \/ k > Len(args) THEN table
    ELSE insert_all(insert_names(table, args[k], k, fail), args, k + 1, fail)

\* The error state the while loop of ensure_hash_table_built leaves: that of the
\* last insert it made.
RECURSIVE insert_all_error(_, _, _, _, _)
insert_all_error(table, args, k, fail, e) ==
    IF table = NoTable \/ k > Len(args) THEN e
    ELSE insert_all_error(insert_names(table, args[k], k, fail), args, k + 1, fail,
                          insert_names_error(table, args[k], k, fail, e))

\* The heap after argparse_hash_insert_internal(table, key, arg): a resize frees
\* the bucket array and allocates the doubled one; a key the table does not hold
\* gets a new entry and a copy of the key.
hash_insert_heap(h, table, key) ==
    IF table = NoTable \/ key = NULL \/ hash_insert_fails(table, key, h.fail) THEN h
    ELSE malloc_each(
            IF table.size * LOAD_DEN > LOAD_NUM * table.capacity
            THEN free(malloc(h, Block("buckets", table.capacity * 2, 0, <<>>)),
                      Block("buckets", table.capacity, 0, <<>>))
            ELSE h,
            IF hash_lookup_internal(table, key) # 0 THEN {}
            ELSE {Block("entry", 0, 0, key), Block("key", 0, 0, key)})

\* The heap after the two guarded inserts of the Argument at position k.
insert_names_heap(h, table, arg, k) ==
    hash_insert_heap(hash_insert_heap(h, table, arg.short_name),
                     insert_if_named(table, arg.short_name, k, h.fail), arg.long_name)

\* The entry and the key copy of every entry of the chains of table.
entry_blocks(table) ==
    UNION { UNION { {Block("key", 0, 0, table.buckets[b][n].key),
                     Block("entry", 0, 0, table.buckets[b][n].key)} :
                        n \in 1..Len(table.buckets[b]) } :
                b \in 1..table.capacity }

\* The heap after ensure_hash_table_built has created the table built and filled
\* it from the Arguments: the table, its bucket array (every resize on the way
\* frees the array it replaces), and one entry and key copy for each key.
hash_build_heap(h, built) ==
    malloc_each(h, {Block("table", 0, 0, <<>>), Block("buckets", built.capacity, 0, <<>>)}
                   \cup entry_blocks(built))

\* ensure_hash_table_built that builds the table one definition late.
ensure_hash_table_built_late(P, seed) ==
    IF P.hash_table # NoTable \/ P.argument_count <= ARGPARSE_HASH_THRESHOLD
    THEN [P EXCEPT !.err = error_clear]
    ELSE IF {Block("table", 0, 0, <<>>), Block("buckets", 0, 0, <<>>)} \cap P.heap.fail # {}
    THEN [P EXCEPT !.err = error_set("APE_MEMORY", ENOMEM, NULL,
                                     "Failed to create hash table.")]
    ELSE [P EXCEPT !.hash_table = insert_all(hash_create_internal(seed), P.arguments, 1,
                                             P.heap.fail),
                   !.hash_enabled = TRUE,
                   !.err = insert_all_error(hash_create_internal(seed), P.arguments, 1,
                                            P.heap.fail, error_clear),
                   !.heap = hash_build_heap(@, insert_all(hash_create_internal(seed),
                                                          P.arguments, 1, P.heap.fail))]

\* ensure_hash_table_built(parser), seed being what secure_random_seed returns.
ensure_hash_table_built(P, seed) ==
    IF P.hash_table # NoTable \/ P.argument_count < ARGPARSE_HASH_THRESHOLD
    THEN [P EXCEPT !.err = error_clear]
    ELSE IF {Block("table", 0, 0, <<>>), Block("buckets", 0, 0, <<>>)} \cap P.heap.fail # {}
    THEN [P EXCEPT !.err = error_set("APE_MEMORY", ENOMEM, NULL,
                                     "Failed to create hash table.")]
    ELSE [P EXCEPT !.hash_table = insert_all(hash_create_internal(seed), P.arguments, 1,
                                             P.heap.fail),
                   !.hash_enabled = TRUE,
                   !.err = insert_all_error(hash_create_internal(seed), P.arguments, 1,
                                            P.heap.fail, error_clear),
                   !.heap = hash_build_heap(@, insert_all(hash_create_internal(seed),
                                                          P.arguments, 1, P.heap.fail))]

\* insert_argument_into_hash_table after parser->argument_count++.
insert_counted(P, k, seed) ==
    IF P.hash_table # NoTable
    THEN [P EXCEPT !.hash_table = insert_names(@, P.arguments[k], k, P.heap.fail),
                   !.heap = insert_names_heap(@, P.hash_table, P.arguments[k], k),
                   !.err = insert_names_error(P.hash_table, P.arguments[k], k,
                                              P.heap.fail, @)]
    ELSE IF P.argument_count >= ARGPARSE_HASH_THRESHOLD
         THEN ensure_hash_table_built(P, seed)
         ELSE P

\* insert_argument_into_hash_table(parser, arg), arg being the Argument just
\* appended at position k.
insert_argument_into_hash_table(P, k, seed) ==
    insert_counted([P EXCEPT !.argument_count = @ + 1], k, seed)

\* is_help_argument(arg_name)
HelpPatterns ==
    { <<"-", "h">>, <<"-", "H">>, <<"-", "-", "h", "e", "l", "p">>,
      <<"-", "-", "H", "E", "L", "P">>, <<"/", "?">>, <<"/", "h", "e", "l", "p">>,
      <<"/", "H", "E", "L", "P">> }

\* is_help_argument that takes no token for a help spelling.
is_help_argument_none(arg_name) == FALSE

is_help_argument(arg_name) ==
    /\ arg_name # NULL
    /\ arg_name # <<>>
    /\ strchr(arg_name, "%") = 0
    /\ arg_name \in HelpPatterns

\* The Argument argparse_add_argument allocates and fills.  default_value is <<>>
\* for a NULL pointer and <<v>> for a pointer to v.  For a list, value is the
\* sequence of the elements chained behind *arg->value and handle tells whether
\* arg->value, the box of the head pointer, is allocated; handle stays TRUE for
\* the other types.
new_argument(short_name, long_name, type, required, default_value) ==
    [short_name |-> short_name,
     long_name |-> long_name,
     type |-> type,
     value |-> IF default_value # <<>>
                  /\ type \in {"ARG_INT", "ARG_DOUBLE", "ARG_STRING", "ARG_BOOL"}
               THEN default_value[1]
               ELSE create_default_value(type),
     required |-> required,
     set |-> FALSE,
     suffix |-> NUL,
     delimiter |-> " ",
     is_list |-> is_list_type(type),
     handle |-> TRUE]

\* The blocks argparse_add_argument allocates for the Argument it appends at
\* position k: the struct, the copies of the names and of the help text, and the
\* value (none for a string without default).
argument_blocks(arg, k) ==
    {Block("Argument", k, 0, <<>>), Block("help", k, 0, <<>>)}
    \cup (IF arg.short_name # NULL THEN {Block("short_name", k, 0, <<>>)} ELSE {})
    \cup (IF arg.long_name # NULL THEN {Block("long_name", k, 0, <<>>)} ELSE {})
    \cup (IF arg.type = "ARG_STRING" /\ arg.value = NULL THEN {}
          ELSE {Block("value", k, 0, <<>>)})

\* The end of argparse_add_argument: the Argument appended to the list, then
\* insert_argument_into_hash_table.
append_argument(P, arg, seed) ==
    insert_argument_into_hash_table(
        [P EXCEPT !.arguments = Append(@, arg),
                  !.heap = malloc_each(@, argument_blocks(arg, Len(P.arguments) + 1))],
        Len(P.arguments) + 1, seed)

\* argparse_add_argument after its argparse_error_clear().
add_argument_cleared(P, short_name, long_name, type, required, default_value, seed) ==
    IF ~P.help_added /\ (is_help_argument(short_name) \/ is_help_argument(long_name))
    THEN P
    ELSE IF (short_name = NULL \/ short_name = <<>>)
            /\ (long_name = NULL \/ long_name = <<>>)
    THEN [P EXCEPT !.err = error_set("APE_INTERNAL", EINVAL, NULL,
                                     "Both short and long names are empty.")]
    ELSE append_argument(P, new_argument(short_name, long_name, type, required,
                                         default_value), seed)

\* argparse_add_argument(parser, short_name, long_name, type, help, required,
\* default_value): the parser afterwards.
add_argument(P, short_name, long_name, type, required, default_value, seed) ==
    add_argument_cleared([P EXCEPT !.err = error_clear], short_name, long_name, type,
                         required, default_value, seed)

\* The end of argparse_add_argument_ex: the suffix patched onto the last Argument.
patch_suffix(P, suffix) ==
    IF P.err.occurred \/ P.arguments = <<>> THEN P
    ELSE [P EXCEPT !.arguments[Len(P.arguments)].suffix = suffix]

\* argparse_add_argument_ex(..., suffix)
add_argument_ex(P, short_name, long_name, type, required, default_value, suffix, seed) ==
    patch_suffix(add_argument(P, short_name, long_name, type, required, default_value,
                              seed), suffix)

\* argparse_add_list_argument(...)
add_list_argument(P, short_name, long_name, list_type, required, seed) ==
    add_argument(P, short_name, long_name, list_type, required, <<>>, seed)

\* The end of argparse_add_list_argument_ex: the delimiter patched onto the last
\* Argument.
patch_delimiter(P, delimiter) ==
    IF P.err.occurred \/ P.arguments = <<>> THEN P
    ELSE [P EXCEPT !.arguments[Len(P.arguments)].delimiter = delimiter]

\* argparse_add_list_argument_ex(..., suffix, delimiter)
add_list_argument_ex(P, short_name, long_name, list_type, required, suffix, delimiter, seed) ==
    IF ~is_list_type(list_type)
    THEN [P EXCEPT !.err = error_set("APE_INTERNAL", EINVAL,
                                     IF short_name # NULL THEN short_name
                                     ELSE IF long_name # NULL THEN long_name ELSE Unnamed,
                                     "Invalid list type.")]
    ELSE patch_delimiter(add_argument_ex(P, short_name, long_name, list_type, required,
                                         <<>>, suffix, seed), delimiter)

\* The ArgParser the variables hold.
Parser ==
    [arguments |-> arguments, argument_count |-> argument_count,
     hash_table |-> hash_table, hash_enabled |-> hash_enabled,
     help_added |-> help_added, err |-> err, heap |-> heap]

\* The variables take the fields of the parser P.
Install(P) ==
    /\ arguments' = P.arguments
    /\ argument_count' = P.argument_count
    /\ hash_table' = P.hash_table
    /\ hash_enabled' = P.hash_enabled
    /\ help_added' = P.help_added
    /\ err' = P.err
    /\ heap' = P.heap

\* argparse_new(description): the parser it returns, the struct and the copy of
\* the description allocated, the help option registered.
argparse_new ==
    add_argument([arguments |-> <<>>, argument_count |-> 0, hash_table |-> NoTable,
                  hash_enabled |-> FALSE, help_added |-> TRUE, err |-> error_clear,
                  heap |-> malloc(malloc(NoHeap, Block("ArgParser", 0, 0, <<>>)),
                                  Block("description", 0, 0, <<>>))],
                 <<"-", "h">>, <<"-", "-", "h", "e", "l", "p">>, "ARG_BOOL", FALSE, <<>>,
                 <<0, 0>>)

\* The program name token, argv[0].
Prog == <<"p", "r", "o", "g">>

\* No accessor has returned yet.
NoRet == [op |-> "none"]

\* The variables hold the fields of the parser P.
Holds(P) ==
    /\ arguments = P.arguments
    /\ argument_count = P.argument_count
    /\ hash_table = P.hash_table
    /\ hash_enabled = P.hash_enabled
    /\ help_added = P.help_added
    /\ err = P.err
    /\ heap = P.heap

Init ==
    /\ Holds(argparse_new)
    /\ help_requested = FALSE
    /\ program_name = NULL
    /\ pc = "ready"
    /\ argv = <<>>
    /\ i = 0
    /\ helps = 0
    /\ validated = FALSE
    /\ ret = NoRet

\* What a define call leaves alone.
DefineFrame ==
    /\ ret' = NoRet
    /\ UNCHANGED <<help_requested, program_name, pc, argv, i, helps, validated>>

\* A call of argparse_add_argument by the application, before it parses.
AddArgument(short_name, long_name, type, required, default_value, seed) ==
    /\ pc = "ready"
    /\ Install(add_argument(Parser, short_name, long_name, type, required,
                            default_value, seed))
    /\ DefineFrame

\* A call of argparse_add_argument_ex.
AddArgumentEx(short_name, long_name, type, required, default_value, suffix, seed) ==
    /\ pc = "ready"
    /\ Install(add_argument_ex(Parser, short_name, long_name, type, required,
                               default_value, suffix, seed))
    /\ DefineFrame

\* A call of argparse_add_list_argument.
AddListArgument(short_name, long_name, list_type, required, seed) ==
    /\ pc = "ready"
    /\ Install(add_list_argument(Parser, short_name, long_name, list_type, required, seed))
    /\ DefineFrame

\* A call of argparse_add_list_argument_ex.
AddListArgumentEx(short_name, long_name, list_type, required, suffix, delimiter, seed) ==
    /\ pc = "ready"
    /\ Install(add_list_argument_ex(Parser, short_name, long_name, list_type, required,
                                    suffix, delimiter, seed))
    /\ DefineFrame

(***************************************************************************)
(* The converters (argparse.c)                                             *)
(***************************************************************************)

INT_MAX == 2147483647

\* The first position from k on in str whose character is not a space, Len + 1 at
\* the terminator: while (isspace(*p)) p++.
skip_space(str, k) ==
    IF \E j \in k..Len(str) : ~isspace(str[j])
    THEN CHOOSE j \in k..Len(str) : ~isspace(str[j]) /\ \A m \in k..(j - 1) : isspace(str[m])
    ELSE Len(str) + 1

\* The first position from k on in str whose character is no digit, Len + 1 at the
\* terminator: where strtol stops reading digits.
skip_digits(str, k) ==
    IF \E j \in k..Len(str) : ~isdigit(str[j])
    THEN CHOOSE j \in k..Len(str) : ~isdigit(str[j]) /\ \A m \in k..(j - 1) : isdigit(str[m])
    ELSE Len(str) + 1

\* The magnitude of the digits str[k..e-1] accumulated onto acc, -1 once it
\* passes INT_MAX.
RECURSIVE digits_value(_, _, _, _)
digits_value(str, k, e, acc) ==
    IF k >= e \/ acc = -1 THEN acc
    ELSE digits_value(str, k + 1, e,
                      IF acc > (INT_MAX - (Ord(str[k]) - 48)) \div 10 THEN -1
                      ELSE (acc * 10) + (Ord(str[k]) - 48))

\* strtol(p, &endptr, 10) followed by the range checks of get_safe_int, for the
\* digits str[q..e-1] and the sign: ok is false when the value fits no int.
strtol_int(str, q, e, negative) ==
    IF digits_value(str, q, e, 0) # -1
    THEN [ok |-> TRUE,
          val |-> IF negative THEN 0 - digits_value(str, q, e, 0)
                  ELSE digits_value(str, q, e, 0)]
    ELSE IF negative /\ digits_value(str, q, e - 1, 0) = 214748364 /\ str[e - 1] = "8"
    THEN [ok |-> TRUE, val |-> (0 - INT_MAX) - 1]
    ELSE [ok |-> FALSE, val |-> 0]

\* get_safe_int from the first non-space position p on.
get_safe_int_at(str, p, q) ==
    IF p > Len(str) THEN [ok |-> FALSE, val |-> 0]
    ELSE IF skip_digits(str, q) = q THEN [ok |-> FALSE, val |-> 0]
    ELSE IF \E j \in skip_digits(str, q)..Len(str) : ~isspace(str[j])
    THEN [ok |-> FALSE, val |-> 0]
    ELSE strtol_int(str, q, skip_digits(str, q), str[p] = "-")

\* Where the digits start for a number whose first character is at p.
after_sign(str, p) ==
    IF p <= Len(str) /\ str[p] \in {"+", "-"} THEN p + 1 ELSE p

\* get_safe_int(str, out): ok is the return value, val what *out receives.
get_safe_int(str) ==
    IF str = NULL THEN [ok |-> FALSE, val |-> 0]
    ELSE get_safe_int_at(str, skip_space(str, 1), after_sign(str, skip_space(str, 1)))

\* Where strtod stops for a decimal text whose digits start at q: after the
\* integer digits and, behind a point, the fraction digits.
skip_decimal(str, q) ==
    IF skip_digits(str, q) <= Len(str) /\ str[skip_digits(str, q)] = "."
    THEN skip_digits(str, skip_digits(str, q) + 1)
    ELSE skip_digits(str, q)

\* The digits of str[q..e-1] without the point.
decimal_digits(str, q, e) == SelectSeq(SubSeq(str, q, e - 1), LAMBDA c : c # ".")

\* The double a decimal text denotes, as sign, integer digits value and fraction
\* digits; -0 and trailing fraction zeros are not normalised, so the model reads
\* doubles only through texts in which they do not occur.
decimal_value(str, p, q, e) ==
    [negative |-> str[p] = "-",
     whole |-> digits_value(str, q, skip_digits(str, q), 0),
     fraction |-> SubSeq(str, skip_digits(str, q) + 1, e - 1)]

\* get_safe_double from the first non-space position p on, for decimal texts
\* without exponent whose integer part fits an int; strtod also reads exponents,
\* hexadecimal floats, inf and nan, which the model's texts never hold.
get_safe_double_at(str, p, q) ==
    IF p > Len(str) THEN [ok |-> FALSE, val |-> 0]
    ELSE IF decimal_digits(str, q, skip_decimal(str, q)) = <<>> THEN [ok |-> FALSE, val |-> 0]
    ELSE IF \E j \in skip_decimal(str, q)..Len(str) : ~isspace(str[j])
    THEN [ok |-> FALSE, val |-> 0]
    ELSE [ok |-> TRUE, val |-> decimal_value(str, p, q, skip_decimal(str, q))]

\* get_safe_double(str, out)
get_safe_double(str) ==
    IF str = NULL THEN [ok |-> FALSE, val |-> 0]
    ELSE get_safe_double_at(str, skip_space(str, 1), after_sign(str, skip_space(str, 1)))

\* skip_dynamic_prefix(str) as the position of the first alphanumeric character
\* of str, Len + 1 at the terminator.
skip_dynamic_prefix(str) ==
    IF \E j \in 1..Len(str) : isalnum(str[j])
    THEN CHOOSE j \in 1..Len(str) : isalnum(str[j]) /\ \A m \in 1..(j - 1) : ~isalnum(str[m])
    ELSE Len(str) + 1

\* A name of the definition `current` matches the clean prefix of arg_str that ends
\* before suffix_pos: strlen(clean) == clean_len && strncmp(...) == 0.
gnu_name_matches(name, arg_str, suffix_pos) ==
    /\ name # NULL
    /\ StrFrom(name, skip_dynamic_prefix(name))
         = SubSeq(arg_str, skip_dynamic_prefix(arg_str), suffix_pos - 1)

\* One turn of the while loop of is_gnu_argument: whether `current` takes arg_str.
gnu_matches(current, arg_str) ==
    /\ current.suffix # NUL
    /\ strchr(arg_str, current.suffix) > 1
    /\ skip_dynamic_prefix(arg_str) < strchr(arg_str, current.suffix)
    /\ \/ gnu_name_matches(current.short_name, arg_str, strchr(arg_str, current.suffix))
       \/ gnu_name_matches(current.long_name, arg_str, strchr(arg_str, current.suffix))

\* is_gnu_argument that returns the last Argument taking arg_str, not the first.
is_gnu_argument_last(args, arg_str) ==
    IF \E k \in 1..Len(args) : gnu_matches(args[k], arg_str)
    THEN CHOOSE k \in 1..Len(args) :
            gnu_matches(args[k], arg_str)
            /\ \A j \in (k + 1)..Len(args) : ~gnu_matches(args[j], arg_str)
    ELSE 0

\* is_gnu_argument(parser, arg_str, &value_ptr): the Argument pointer, 0 for NULL.
is_gnu_argument(args, arg_str) ==
    IF \E k \in 1..Len(args) : gnu_matches(args[k], arg_str)
    THEN CHOOSE k \in 1..Len(args) :
            gnu_matches(args[k], arg_str) /\ \A j \in 1..(k - 1) : ~gnu_matches(args[j], arg_str)
    ELSE 0

\* *value_ptr after is_gnu_argument returned the Argument `current`: suffix_pos + 1.
gnu_value(current, arg_str) == StrFrom(arg_str, strchr(arg_str, current.suffix) + 1)

(***************************************************************************)
(* Value parsing (argparse.c): each operator gives the Argument and the    *)
(* error state it leaves, [arg |-> ..., err |-> ...]                       *)
(***************************************************************************)

\* append_to_list that puts the node at the head of the list.
append_to_list_head(arg, value) ==
    [arg |-> [arg EXCEPT !.value = <<value>> \o @], err |-> error_clear]

\* append_to_list(arg, value): the node appended at the tail.
append_to_list(arg, value) ==
    IF ~arg.is_list
    THEN [arg |-> arg,
          err |-> error_set("APE_INTERNAL", EINVAL, long_first_name(arg),
                            "append_to_list: called on non-list argument.")]
    ELSE [arg |-> [arg EXCEPT !.value = Append(@, value)], err |-> error_clear]

\* append_to_list(arg, value) where malloc of the node returns NULL if node_fails;
\* e is the error state before the call, which a successful append leaves as it
\* is.  A missing handle is allocated again first; a failed node allocation frees
\* the handle of an empty list and sets arg->value to NULL.
append_to_list_alloc(arg, value, e, node_fails) ==
    IF ~arg.is_list THEN append_to_list(arg, value)
    ELSE IF node_fails
    THEN [arg |-> IF arg.value = <<>> THEN [arg EXCEPT !.handle = FALSE]
                  ELSE [arg EXCEPT !.handle = TRUE],
          err |-> error_set("APE_MEMORY", ENOMEM, long_first_name(arg),
                            "Memory allocation failed.")]
    ELSE [arg |-> [append_to_list(arg, value).arg EXCEPT !.handle = TRUE], err |-> e]

\* arg->delimiter ? arg->delimiter : ' '
delimiter_of(arg) == IF arg.delimiter # NUL THEN arg.delimiter ELSE " "

\* skip_delimiters that skips nothing.
skip_delimiters_none(str, start, delimiter) == start

\* while (*start && *start == delimiter) start++
skip_delimiters(str, start, delimiter) ==
    IF \E j \in start..Len(str) : str[j] # delimiter
    THEN CHOOSE j \in start..Len(str) :
            str[j] # delimiter /\ \A m \in start..(j - 1) : str[m] = delimiter
    ELSE Len(str) + 1

\* while (*end && *end != delimiter) end++
find_token_end(str, start, delimiter) ==
    IF \E j \in start..Len(str) : str[j] = delimiter
    THEN CHOOSE j \in start..Len(str) :
            str[j] = delimiter /\ \A m \in start..(j - 1) : str[m] # delimiter
    ELSE Len(str) + 1

\* The switch of parse_list_with_delimiter on one token: the parsed value, or the
\* error that makes the function return.
parse_list_token(arg, token) ==
    CASE arg.type = "ARG_INT_LIST" ->
            IF Len(token) >= 32
            THEN [valid |-> FALSE,
                  err |-> error_set("APE_RANGE", ERANGE, long_first_name(arg),
                                    "List value too long for integer parsing.")]
            ELSE IF get_safe_int(token).ok
            THEN [valid |-> TRUE, val |-> get_safe_int(token).val]
            ELSE [valid |-> FALSE,
                  err |-> error_set("APE_TYPE", EINVAL, long_first_name(arg),
                                    "Invalid list value.")]
      [] arg.type = "ARG_DOUBLE_LIST" ->
            IF Len(token) >= 64
            THEN [valid |-> FALSE,
                  err |-> error_set("APE_RANGE", ERANGE, long_first_name(arg),
                                    "List value too long for double parsing.")]
            ELSE IF get_safe_double(token).ok
            THEN [valid |-> TRUE, val |-> get_safe_double(token).val]
            ELSE [valid |-> FALSE,
                  err |-> error_set("APE_TYPE", EINVAL, long_first_name(arg),
                                    "Invalid list value.")]
      [] arg.type = "ARG_STRING_LIST" -> [valid |-> TRUE, val |-> token]
      [] OTHER -> [valid |-> FALSE,
                   err |-> error_set("APE_INTERNAL", EINVAL, long_first_name(arg),
                                     "Invalid list type.")]

\* The end of parse_list_with_delimiter, after its while loop: e is the error
\* state the appends left, lost the elements whose node could not be allocated.
list_with_delimiter_end(arg, count, e, lost) ==
    IF count = 0
    THEN [arg |-> arg,
          err |-> error_set("APE_SYNTAX", EINVAL, long_first_name(arg),
                            "List requires values."),
          lost |-> lost]
    ELSE [arg |-> [arg EXCEPT !.set = TRUE], err |-> e, lost |-> lost]

\* The while loop of parse_list_with_delimiter from position start on, count
\* values passed to append_to_list so far; fail holds the calls of append_to_list,
\* counted from 1, whose node allocation fails.
RECURSIVE list_with_delimiter_loop(_, _, _, _, _, _, _)
list_with_delimiter_token(arg, str, start, count, e, lost, fail) ==
    IF start > Len(str) \/ find_token_end(str, start, delimiter_of(arg)) = start
    THEN list_with_delimiter_end(arg, count, e, lost)
    ELSE IF ~parse_list_token(arg, SubSeq(str, start,
                find_token_end(str, start, delimiter_of(arg)) - 1)).valid
    THEN [arg |-> arg,
          err |-> parse_list_token(arg, SubSeq(str, start,
                      find_token_end(str, start, delimiter_of(arg)) - 1)).err,
          lost |-> lost]
    ELSE list_with_delimiter_loop(
            append_to_list_alloc(arg, parse_list_token(arg, SubSeq(str, start,
                find_token_end(str, start, delimiter_of(arg)) - 1)).val,
                e, (count + 1) \in fail).arg,
            str, find_token_end(str, start, delimiter_of(arg)), count + 1,
            append_to_list_alloc(arg, parse_list_token(arg, SubSeq(str, start,
                find_token_end(str, start, delimiter_of(arg)) - 1)).val,
                e, (count + 1) \in fail).err,
            IF (count + 1) \in fail THEN lost + 1 ELSE lost, fail)

list_with_delimiter_loop(arg, str, start, count, e, lost, fail) ==
    IF start > Len(str) THEN list_with_delimiter_end(arg, count, e, lost)
    ELSE list_with_delimiter_token(arg, str, skip_delimiters(str, start, delimiter_of(arg)),
                                   count, e, lost, fail)

\* parse_list_with_delimiter(arg, value_str), fail as above.
parse_list_with_delimiter(arg, value_str, fail) ==
    IF value_str = NULL \/ ~arg.is_list
    THEN [arg |-> arg,
          err |-> error_set("APE_INTERNAL", EINVAL, long_first_name(arg),
                            "Invalid list argument."),
          lost |-> 0]
    ELSE list_with_delimiter_loop(arg, value_str, 1, 0, error_clear, 0, fail)

\* The words parse_single_value takes for true and for false.
TrueWords ==
    { <<"t", "r", "u", "e">>, <<"1">>, <<"y", "e", "s">>, <<"o", "n">>,
      <<"e", "n", "a", "b", "l", "e">>, <<"e", "n", "a", "b", "l", "e", "d">> }

FalseWords ==
    { <<"f", "a", "l", "s", "e">>, <<"0">>, <<"n", "o">>, <<"o", "f", "f">>,
      <<"d", "i", "s", "a", "b", "l", "e">>, <<"d", "i", "s", "a", "b", "l", "e", "d">> }

\* lower_val that keeps the case of str_val.
lower_val_same(str_val) == str_val

\* lower_val: str_val through tolower.
lower_val(str_val) == [k \in 1..Len(str_val) |-> tolower(str_val[k])]

\* The switch of parse_single_value: the value stored, or the error that makes the
\* function return.
single_value(arg, str_val) ==
    CASE arg.type = "ARG_INT" ->
            IF get_safe_int(str_val).ok
            THEN [valid |-> TRUE, val |-> get_safe_int(str_val).val]
            ELSE [valid |-> FALSE,
                  err |-> error_set("APE_TYPE", EINVAL, long_first_name(arg),
                                    "Invalid integer value.")]
      [] arg.type = "ARG_DOUBLE" ->
            IF get_safe_double(str_val).ok
            THEN [valid |-> TRUE, val |-> get_safe_double(str_val).val]
            ELSE [valid |-> FALSE,
                  err |-> error_set("APE_TYPE", EINVAL, long_first_name(arg),
                                    "Invalid floating-point value.")]
      [] arg.type = "ARG_STRING" -> [valid |-> TRUE, val |-> str_val]
      [] arg.type = "ARG_BOOL" ->
            IF str_val = <<>> THEN [valid |-> TRUE, val |-> TRUE]
            ELSE IF Len(str_val) > 63
            THEN [valid |-> FALSE,
                  err |-> error_set("APE_RANGE", ERANGE, long_first_name(arg),
                                    "Boolean value too long.")]
            ELSE IF lower_val(str_val) \in TrueWords THEN [valid |-> TRUE, val |-> TRUE]
            ELSE IF lower_val(str_val) \in FalseWords THEN [valid |-> TRUE, val |-> FALSE]
            ELSE [valid |-> FALSE,
                  err |-> error_set("APE_TYPE", EINVAL, long_first_name(arg),
                                    "Invalid boolean value. Use: true/false, yes/no, 1/0, on/off, enable/disable")]
      [] OTHER -> [valid |-> FALSE,
                   err |-> error_set("APE_INTERNAL", EINVAL, long_first_name(arg),
                                     "Unknown argument type.")]

\* parse_single_value that marks the Argument as set before it converts.
parse_single_value_marked(arg, str_val) ==
    IF str_val # NULL /\ ~is_list_type(arg.type) /\ single_value(arg, str_val).valid
    THEN [arg |-> [arg EXCEPT !.value = single_value(arg, str_val).val, !.set = TRUE],
          err |-> error_clear]
    ELSE [arg |-> [arg EXCEPT !.set = TRUE],
          err |-> error_set("APE_TYPE", EINVAL, long_first_name(arg), "Invalid value.")]

\* parse_single_value(arg, str_val)
parse_single_value(arg, str_val) ==
    IF str_val = NULL
    THEN [arg |-> arg,
          err |-> error_set("APE_INTERNAL", EINVAL, long_first_name(arg),
                            "Invalid argument or value pointer.")]
    ELSE IF is_list_type(arg.type)
    THEN [arg |-> arg,
          err |-> error_set("APE_INTERNAL", EINVAL, long_first_name(arg),
                            "List argument processed in parse_single_value.")]
    ELSE IF single_value(arg, str_val).valid
    THEN [arg |-> [arg EXCEPT !.value = single_value(arg, str_val).val, !.set = TRUE],
          err |-> error_clear]
    ELSE [arg |-> arg, err |-> single_value(arg, str_val).err]

\* The token argv[i] of the C program: argv is held from position 1 on.
Tok(av, n) == av[n + 1]

\* The switch of parse_list_values on one value token.
list_value(arg, value) ==
    CASE arg.type = "ARG_INT_LIST" ->
            IF get_safe_int(value).ok
            THEN [valid |-> TRUE, val |-> get_safe_int(value).val]
            ELSE [valid |-> FALSE]
      [] arg.type = "ARG_DOUBLE_LIST" ->
            IF get_safe_double(value).ok
            THEN [valid |-> TRUE, val |-> get_safe_double(value).val]
            ELSE [valid |-> FALSE]
      [] arg.type = "ARG_STRING_LIST" -> [valid |-> TRUE, val |-> value]
      [] OTHER -> [valid |-> FALSE]

\* The append_to_list calls of the value parser working on argv[n] whose node
\* allocation fails, counted from 1.
NodeFails(fail, n) == { b[3] : b \in { c \in fail : c[1] = "node" /\ c[2] = n } }

\* The end of parse_list_values that returns the index of the option itself.
list_values_end_stays(arg, e, current_index, n, values_parsed, lost) ==
    IF values_parsed = 0
    THEN [arg |-> arg,
          err |-> error_set("APE_SYNTAX", EINVAL, long_first_name(arg),
                            "List argument requires values."),
          i |-> current_index, lost |-> lost]
    ELSE [arg |-> [arg EXCEPT !.set = TRUE], err |-> e, i |-> current_index, lost |-> lost]

\* The end of parse_list_values, after its while loop: the Argument, the error
\* state and the index returned.
list_values_end(arg, e, current_index, n, values_parsed, lost) ==
    IF values_parsed = 0
    THEN [arg |-> arg,
          err |-> error_set("APE_SYNTAX", EINVAL, long_first_name(arg),
                            "List argument requires values."),
          i |-> current_index, lost |-> lost]
    ELSE [arg |-> [arg EXCEPT !.set = TRUE], err |-> e, i |-> n - 1, lost |-> lost]

\* The while loop of parse_list_values at argv[n], values_parsed values taken so
\* far, e the error state so far, lost the elements whose node could not be
\* allocated; P is the parser the lookups read, P.heap.fail the allocations that
\* fail.
RECURSIVE list_values_loop(_, _, _, _, _, _, _, _)
list_values_body(P, arg, e, current_index, av, n, values_parsed, lost) ==
    IF delimiter_of(arg) # " " /\ strchr(Tok(av, n), delimiter_of(arg)) # 0
    THEN IF parse_list_with_delimiter(arg, Tok(av, n), NodeFails(P.heap.fail, n)).err.occurred
         THEN [arg |-> parse_list_with_delimiter(arg, Tok(av, n),
                                                 NodeFails(P.heap.fail, n)).arg,
               err |-> parse_list_with_delimiter(arg, Tok(av, n),
                                                 NodeFails(P.heap.fail, n)).err,
               i |-> current_index,
               lost |-> lost + parse_list_with_delimiter(arg, Tok(av, n),
                                                        NodeFails(P.heap.fail, n)).lost]
         ELSE list_values_loop(P, parse_list_with_delimiter(arg, Tok(av, n),
                                                            NodeFails(P.heap.fail, n)).arg,
                               error_clear, current_index, av, n + 1, values_parsed + 1,
                               lost)
    ELSE IF list_value(arg, Tok(av, n)).valid
    THEN list_values_loop(P,
            append_to_list_alloc(arg, list_value(arg, Tok(av, n)).val, e,
                                 1 \in NodeFails(P.heap.fail, n)).arg,
            append_to_list_alloc(arg, list_value(arg, Tok(av, n)).val, e,
                                 1 \in NodeFails(P.heap.fail, n)).err,
            current_index, av, n + 1, values_parsed + 1,
            IF 1 \in NodeFails(P.heap.fail, n) THEN lost + 1 ELSE lost)
    ELSE [arg |-> arg,
          err |-> error_set("APE_TYPE", EINVAL, long_first_name(arg), "Invalid list value."),
          i |-> current_index, lost |-> lost]

list_values_loop(P, arg, e, current_index, av, n, values_parsed, lost) ==
    IF n >= Len(av) THEN list_values_end(arg, e, current_index, n, values_parsed, lost)
    ELSE IF hash_find_argument(P, Tok(av, n)) # 0
    THEN list_values_end(arg, error_clear, current_index, n, values_parsed, lost)
    ELSE list_values_body(P, arg, hash_find_error(Tok(av, n)), current_index, av, n,
                          values_parsed, lost)

\* parse_list_values(parser, arg, current_index, argc, argv)
parse_list_values(P, arg, current_index, av) ==
    list_values_loop(P, arg, error_clear, current_index, av, current_index + 1, 0, 0)

(***************************************************************************)
(* argparse_parse, one step per loop turn, and APE_RETURN_IF_ERROR          *)
(***************************************************************************)

\* What a step of argparse_parse leaves alone.
ParseFrame == UNCHANGED <<argument_count, hash_table, hash_enabled, help_added, ret>>

\* Entry of argparse_parse without the argc == 1 branch: the for loop and the
\* validation run on the bare program name.
ParseBegin_scans(av) ==
    /\ pc = "ready"
    /\ argv' = av
    /\ program_name' = Tok(av, 0)
    /\ heap' = malloc(IF program_name # NULL
                      THEN free(heap, Block("program_name", 0, 0, <<>>)) ELSE heap,
                      Block("program_name", 0, 0, <<>>))
    /\ i' = 1
    /\ helps' = helps
    /\ err' = error_clear
    /\ pc' = "scan"
    /\ ret' = NoRet
    /\ UNCHANGED <<arguments, argument_count, hash_table, hash_enabled, help_added,
                   help_requested, validated>>

\* The entry of argparse_parse(parser, argc, argv) up to the for loop, fail being
\* the allocations that return NULL in this call of argparse_parse.
ParseBeginOom(av, fail) ==
    /\ pc = "ready"
    /\ argv' = av
    /\ program_name' = Tok(av, 0)
    /\ heap' = [malloc(IF program_name # NULL
                       THEN free(heap, Block("program_name", 0, 0, <<>>)) ELSE heap,
                       Block("program_name", 0, 0, <<>>))
                   EXCEPT !.fail = fail]
    /\ i' = 1
    /\ IF Len(av) = 1
       THEN /\ helps' = helps + 1
            /\ err' = error_set("APE_HELP_REQUESTED", 0, NULL,
                                "No arguments provided, showing help.")
            /\ pc' = "rie_return"
       ELSE /\ helps' = helps
            /\ err' = error_clear
            /\ pc' = "scan"
    /\ ret' = NoRet
    /\ UNCHANGED <<arguments, argument_count, hash_table, hash_enabled, help_added,
                   help_requested, validated>>

\* The entry of argparse_parse(parser, argc, argv) when no allocation fails.
ParseBegin(av) == ParseBeginOom(av, {})

\* The heap after a value parser turned the Argument arg at position k into
\* R.arg.  parse_single_value copies a string value and frees the one it replaces;
\* the list parsers allocate one element and, in append_to_list, one node for each
\* value they append (the element of a token that does not convert is freed at
\* once; the element whose node cannot be allocated is not freed and no pointer
\* to it is kept).  handle_heap is what append_to_list does to the list handle:
\* freed with a failed node allocation on an empty list, allocated again by the
\* next append.
handle_heap(h, k, arg, after) ==
    IF arg.handle /\ ~after.handle THEN free(h, Block("value", k, 0, <<>>))
    ELSE IF ~arg.handle /\ after.handle THEN malloc(h, Block("value", k, 0, <<>>))
    ELSE h

value_heap(h, k, arg, R) ==
    IF arg.type = "ARG_STRING"
    THEN IF R.err.occurred THEN h
         ELSE malloc(IF arg.value # NULL THEN free(h, Block("value", k, 0, <<>>)) ELSE h,
                     Block("value", k, 0, <<>>))
    ELSE IF arg.is_list /\ is_list_type(arg.type)
    THEN handle_heap(
            [malloc_each(h, UNION { {Block("data", k, n, <<>>), Block("node", k, n, <<>>)} :
                                      n \in (Len(arg.value) + 1)..Len(R.arg.value) })
                EXCEPT !.lost = @ + R.lost],
            k, arg, R.arg)
    ELSE h

\* The Argument at position k and the error state take what a value parser left.
StoreParsed(k, R) ==
    /\ arguments' = [arguments EXCEPT ![k] = R.arg]
    /\ err' = R.err
    /\ heap' = value_heap(heap, k, arguments[k], R)

\* The branch if (gnu_arg) of the loop body, gnu_arg at position k.
GnuToken(k, value) ==
    /\ StoreParsed(k, IF arguments[k].type = "ARG_BOOL"
                      THEN parse_single_value(arguments[k],
                               IF value # <<>> THEN value ELSE <<"t", "r", "u", "e">>)
                      ELSE IF arguments[k].is_list
                      THEN parse_list_with_delimiter(arguments[k], value,
                                                     NodeFails(heap.fail, i))
                      ELSE parse_single_value(arguments[k], value))
    /\ pc' = "rie_continue"
    /\ UNCHANGED <<i, help_requested, helps>>

\* HelpToken that signals the help request with the code EINVAL.
HelpToken_coded ==
    /\ help_requested' = TRUE
    /\ helps' = helps + 1
    /\ err' = error_set("APE_HELP_REQUESTED", EINVAL, NULL, "Help requested by user.")
    /\ pc' = "rie_return"
    /\ UNCHANGED <<arguments, i, heap>>

\* The branch if (is_help_argument(current_arg)) of the loop body.
HelpToken ==
    /\ help_requested' = TRUE
    /\ helps' = helps + 1
    /\ err' = error_set("APE_HELP_REQUESTED", 0, NULL, "Help requested by user.")
    /\ pc' = "rie_return"
    /\ UNCHANGED <<arguments, i, heap>>

\* The Argument and the index parse_list_values left.
StoreListValues(k, R) ==
    /\ arguments' = [arguments EXCEPT ![k] = R.arg]
    /\ err' = R.err
    /\ i' = R.i
    /\ heap' = value_heap(heap, k, arguments[k], R)

\* The branch if (arg) of the loop body, arg at position k.
NamedToken(k) ==
    /\ UNCHANGED <<help_requested, helps>>
    /\ IF arguments[k].type = "ARG_BOOL"
       THEN /\ StoreParsed(k, parse_single_value(arguments[k], <<>>))
            /\ pc' = "rie_continue"
            /\ i' = i
       ELSE IF arguments[k].is_list
       THEN /\ StoreListValues(k, parse_list_values(Parser, arguments[k], i, argv))
            /\ pc' = "rie_continue"
       ELSE IF i + 1 < Len(argv)
       THEN IF ~hash_is_argument(Parser, Tok(argv, i + 1))
            THEN /\ StoreParsed(k, parse_single_value(arguments[k], Tok(argv, i + 1)))
                 /\ i' = i + 1
                 /\ pc' = "rie_continue"
            ELSE /\ err' = error_set("APE_SYNTAX", EINVAL,
                                     IF arguments[k].short_name # NULL
                                     THEN arguments[k].short_name
                                     ELSE arguments[k].long_name,
                                     "Option requires a value.")
                 /\ pc' = "rie_return"
                 /\ UNCHANGED <<arguments, i, heap>>
       ELSE /\ err' = error_set("APE_SYNTAX", EINVAL,
                                IF arguments[k].short_name # NULL
                                THEN arguments[k].short_name
                                ELSE arguments[k].long_name,
                                "Option requires a value but none provided.")
            /\ pc' = "rie_return"
            /\ UNCHANGED <<arguments, i, heap>>

\* The last else of the loop body: current_arg is no registered argument.
UnknownToken ==
    /\ err' = error_set("APE_SYNTAX", EINVAL, Tok(argv, i),
                        "Unexpected value (did you forget an option?).")
    /\ pc' = "rie_return"
    /\ UNCHANGED <<arguments, i, help_requested, helps, heap>>

\* One turn of the for loop of argparse_parse, up to its APE_RETURN_IF_ERROR.
ParseToken ==
    /\ pc = "scan"
    /\ i < Len(argv)
    /\ IF is_gnu_argument(arguments, Tok(argv, i)) # 0
       THEN GnuToken(is_gnu_argument(arguments, Tok(argv, i)),
                     gnu_value(arguments[is_gnu_argument(arguments, Tok(argv, i))],
                               Tok(argv, i)))
       ELSE IF is_help_argument(Tok(argv, i)) THEN HelpToken
       ELSE IF hash_find_argument(Parser, Tok(argv, i)) # 0
       THEN NamedToken(hash_find_argument(Parser, Tok(argv, i)))
       ELSE UnknownToken
    /\ UNCHANGED <<argv, program_name, validated>>
    /\ ParseFrame

\* APE_RETURN_IF_ERROR(parser) and the continue or return behind it: a fatal error
\* prints the help, which clears the error state, and exits the process.
ReturnIfError ==
    /\ pc \in {"rie_continue", "rie_return"}
    /\ IF err.occurred
       THEN IF error_is_fatal(err)
            THEN /\ helps' = helps + 1
                 /\ err' = error_clear
                 /\ pc' = "exited"
                 /\ i' = i
            ELSE /\ pc' = "done"
                 /\ UNCHANGED <<helps, err, i>>
       ELSE /\ IF pc = "rie_continue"
               THEN pc' = "scan" /\ i' = i + 1
               ELSE pc' = "done" /\ i' = i
            /\ UNCHANGED <<helps, err>>
    /\ UNCHANGED <<arguments, argv, program_name, help_requested, validated, heap>>
    /\ ParseFrame

\* The first required Argument that is not set, 0 if there is none.
first_missing(args) ==
    IF \E k \in 1..Len(args) : args[k].required /\ ~args[k].set
    THEN CHOOSE k \in 1..Len(args) :
            /\ args[k].required /\ ~args[k].set
            /\ \A j \in 1..(k - 1) : ~(args[j].required /\ ~args[j].set)
    ELSE 0

\* The validation of the required arguments behind the for loop.
ParseValidate ==
    /\ pc = "scan"
    /\ i >= Len(argv)
    /\ validated' = TRUE
    /\ IF first_missing(arguments) # 0
       THEN /\ err' = error_set("APE_REQUIRED", EINVAL,
                                short_first_name(arguments[first_missing(arguments)]),
                                "Required argument not provided.")
            /\ pc' = "rie_return"
       ELSE /\ err' = err
            /\ pc' = "done"
    /\ UNCHANGED <<arguments, argv, program_name, help_requested, helps, i, heap>>
    /\ ParseFrame

(***************************************************************************)
(* The accessors                                                           *)
(***************************************************************************)

\* What an accessor leaves alone.
AccessFrame ==
    UNCHANGED <<arguments, argument_count, hash_table, hash_enabled, help_added,
                help_requested, program_name, pc, argv, i, helps, validated, heap>>

\* The Argument at position k (0 for NULL) is one argparse_get_int reads no foreign
\* storage of: not set, or int-typed.
int_readable(args, k) ==
    IF k = 0 THEN TRUE ELSE ~args[k].set \/ args[k].type = "ARG_INT"

\* argparse_get_int(parser, name), called outside argparse_parse on a name that is
\* not registered, not set or int-typed.
GetInt(name) ==
    /\ pc \in {"ready", "done"}
    /\ int_readable(arguments, hash_find_argument(Parser, name))
    /\ err' = hash_find_error(name)
    /\ ret' = [op |-> "get_int", name |-> name,
               value |-> IF hash_find_argument(Parser, name) # 0
                            /\ arguments[hash_find_argument(Parser, name)].set
                         THEN arguments[hash_find_argument(Parser, name)].value
                         ELSE 0]
    /\ AccessFrame

\* What argparse_get_int_list returns for the Argument at position k (0 for NULL):
\* the count, and the array *values receives if it is assigned.
int_list_result(args, k) ==
    IF k = 0 THEN [count |-> 0, assigned |-> FALSE, values |-> <<>>]
    ELSE IF ~args[k].set \/ args[k].type # "ARG_INT_LIST"
    THEN [count |-> 0, assigned |-> FALSE, values |-> <<>>]
    ELSE [count |-> Len(args[k].value), assigned |-> TRUE, values |-> args[k].value]

\* argparse_get_int_list(parser, name, &values), called outside argparse_parse.
GetIntList(name) ==
    /\ pc \in {"ready", "done"}
    /\ err' = IF name = NULL \/ name = <<>>
              THEN error_set("APE_INTERNAL", EINVAL, NULL, "Argument name are empty or NULL.")
              ELSE hash_find_error(name)
    /\ ret' = [op |-> "get_int_list", name |-> name]
                 @@ int_list_result(arguments, hash_find_argument(Parser, name))
    /\ AccessFrame

(***************************************************************************)
(* Applications: define calls drawn from a pool, one parse, accessors      *)
(***************************************************************************)

\* A define call of the application: the function called and its parameters.
DefineCall(api, short_name, long_name, type, required, default_value, suffix, delimiter) ==
    [api |-> api, short_name |-> short_name, long_name |-> long_name, type |-> type,
     required |-> required, default_value |-> default_value, suffix |-> suffix,
     delimiter |-> delimiter]

\* The application has made the define call e.
Defined(e) ==
    \E k \in 1..Len(arguments) :
        arguments[k].short_name = e.short_name /\ arguments[k].long_name = e.long_name

\* The application makes the define call e; the index is not built at the sizes
\* these runs reach, so the seed is never read.
Define(e) ==
    IF e.api = "argparse_add_argument"
    THEN AddArgument(e.short_name, e.long_name, e.type, e.required, e.default_value,
                     <<0, 1>>)
    ELSE IF e.api = "argparse_add_argument_ex"
    THEN AddArgumentEx(e.short_name, e.long_name, e.type, e.required, e.default_value,
                       e.suffix, <<0, 1>>)
    ELSE IF e.api = "argparse_add_list_argument"
    THEN AddListArgument(e.short_name, e.long_name, e.type, e.required, <<0, 1>>)
    ELSE AddListArgumentEx(e.short_name, e.long_name, e.type, e.required, e.suffix,
                           e.delimiter, <<0, 1>>)

\* The argument vectors of at most n tokens behind the program name.
Argvs(tokens, n) ==
    UNION { { <<Prog>> \o t : t \in [1..m -> tokens] } : m \in 0..n }

\* How many tokens an argument vector holds at most behind the program name.
MaxArgs == 3

(***************************************************************************)
(* The registry and its index under many define calls                      *)
(***************************************************************************)

\* How many definitions the index runs register at most, the help option included.
MaxIndexDefs == 17
\* How many define calls of an index run may repeat an already registered name.
MaxRepeats == 1

\* The seeds secure_random_seed may return that the model tries (0xDEADBEEF, 1).
Seeds == { <<57005, 48879>>, <<0, 1>> }

\* The k-th short and long option name of the index runs: -ab, --ab, -ac, ...
ShortName(k) == <<"-", Chr(97 + (k \div 26)), Chr(97 + (k % 26))>>

LongName(k) == <<"-", "-", Chr(97 + (k \div 26)), Chr(97 + (k % 26))>>

\* The definitions after the first that carry the short name of the first user
\* definition.
Repeats == Cardinality({k \in 3..Len(arguments) : arguments[k].short_name = ShortName(1)})

\* define with names no definition has yet.
DefineFresh ==
    /\ Len(arguments) < MaxIndexDefs
    /\ \E seed \in IF argument_count + 1 = ARGPARSE_HASH_THRESHOLD THEN Seeds
                   ELSE {<<0, 1>>} :
         AddArgument(ShortName(Len(arguments)), LongName(Len(arguments)), "ARG_INT",
                     FALSE, <<>>, seed)

\* define_list whose short name is the short name of the first user definition.
DefineRepeated ==
    /\ Len(arguments) \in 2..(MaxIndexDefs - 1)
    /\ Repeats < MaxRepeats
    /\ \E seed \in IF argument_count + 1 = ARGPARSE_HASH_THRESHOLD THEN Seeds
                   ELSE {<<0, 1>>} :
         AddListArgument(ShortName(1), NULL, "ARG_INT_LIST", FALSE, seed)

NextIndex == DefineFresh \/ DefineRepeated

SpecIndex == Init /\ [][NextIndex]_vars

\* The non-empty names a definition carries.
NamesOf(arg) == {arg.short_name, arg.long_name} \ {NULL, <<>>}

RegisteredNames == UNION {NamesOf(arguments[k]) : k \in 1..Len(arguments)}

\* C1: for every registered short or long name, find(name) in the active mode
\* returns the definition the linear declaration-order scan of the Registry
\* returns (so the answer is the same below and above the hashing threshold).
FindAgreesWithLinearScan ==
    \A name \in RegisteredNames :
        hash_find_argument(Parser, name) = linear_search(arguments, name)

\* C2: no two definitions share a non-empty short or long name.
NoSharedNames ==
    \A j, k \in 1..Len(arguments) :
        j # k => NamesOf(arguments[j]) \cap NamesOf(arguments[k]) = {}

(***************************************************************************)
(* Scalar options: an int with a default, two required options             *)
(***************************************************************************)

ScalarPool ==
    { DefineCall("argparse_add_argument", <<"-", "r">>, <<"-", "-", "r", "o", "u", "n", "d">>,
                 "ARG_INT", FALSE, <<5>>, NUL, NUL),
      DefineCall("argparse_add_argument", <<"-", "o">>, NULL, "ARG_STRING", TRUE, <<>>,
                 NUL, NUL),
      DefineCall("argparse_add_argument", NULL, <<"-", "-", "l", "v">>, "ARG_INT", TRUE,
                 <<>>, NUL, NUL) }

ScalarTokens ==
    { <<"-", "r">>, <<"-", "-", "r", "o", "u", "n", "d">>, <<"7">>, <<"a", "b", "c">>,
      <<"-", "o">>, <<"-", "-", "l", "v">>, <<"-", "-", "h", "e", "l", "p">> }

ScalarDefine == \E e \in ScalarPool : ~Defined(e) /\ Define(e)

ScalarParse == \E av \in Argvs(ScalarTokens, MaxArgs) : ParseBegin(av)

ScalarGetInt ==
    \E name \in { <<"-", "r">>, <<"-", "-", "r", "o", "u", "n", "d">>, <<"-", "-", "l", "v">> } :
        GetInt(name)

Next ==
    \/ ScalarDefine
    \/ ScalarParse
    \/ ParseToken
    \/ ReturnIfError
    \/ ParseValidate
    \/ ScalarGetInt

Spec == Init /\ [][Next]_vars

\* The define call of the pool that made the Argument at position k, for a
\* registry whose definitions come from the pool.
CallOf(pool, k) ==
    CHOOSE e \in pool :
        e.short_name = arguments[k].short_name /\ e.long_name = arguments[k].long_name

\* The position at which argparse_parse read the option name whose value
\* get_int(name) returns, 0 if no such position: the last token of argv that is
\* a name of the Argument at position k and has a valid integer token behind it.
LastGiven(k) ==
    IF \E n \in 1..(Len(argv) - 2) :
            Tok(argv, n) \in NamesOf(arguments[k]) /\ get_safe_int(Tok(argv, n + 1)).ok
    THEN CHOOSE n \in 1..(Len(argv) - 2) :
            /\ Tok(argv, n) \in NamesOf(arguments[k]) /\ get_safe_int(Tok(argv, n + 1)).ok
            /\ \A m \in (n + 1)..(Len(argv) - 2) :
                    ~(Tok(argv, m) \in NamesOf(arguments[k])
                      /\ get_safe_int(Tok(argv, m + 1)).ok)
    ELSE 0

\* C3: for a scalar int argument defined with default D, get_int(name) returns D
\* as long as parse has not assigned the argument, and the value V of the integer
\* token parse assigned to it afterwards.
GetIntDefaultThenParsed ==
    \A k \in 2..Len(arguments) :
        (/\ ret.op = "get_int"
         /\ ret.name \in NamesOf(arguments[k])
         /\ arguments[k].type = "ARG_INT"
         /\ CallOf(ScalarPool, k).default_value # <<>>)
        => IF arguments[k].set
           THEN LastGiven(k) # 0
                /\ ret.value = get_safe_int(Tok(argv, LastGiven(k) + 1)).val
           ELSE ret.value = CallOf(ScalarPool, k).default_value[1]

\* get_int after a parse that assigned the argument returns the token's value.
GetIntParsed ==
    \A k \in 2..Len(arguments) :
        (/\ ret.op = "get_int"
         /\ ret.name \in NamesOf(arguments[k])
         /\ arguments[k].type = "ARG_INT"
         /\ arguments[k].set)
        => (LastGiven(k) # 0 /\ ret.value = get_safe_int(Tok(argv, LastGiven(k) + 1)).val)

\* C5: when parse has consumed every token and a required definition is not
\* set, parse ends failed with RequiredError whose argument name is the name of
\* the first such definition in declaration order.
RequiredErrorNamesFirstMissing ==
    (validated /\ pc \in {"done", "exited"} /\ ret = NoRet
     /\ first_missing(arguments) # 0)
    => (/\ err.occurred
        /\ err.category = "APE_REQUIRED"
        /\ err.argument_name \in NamesOf(arguments[first_missing(arguments)]))

\* The validation step raises RequiredError naming the first missing required
\* definition, and changes no value and no set flag.
ValidationRaisesFirstMissing ==
    [][(pc = "scan" /\ i >= Len(argv) /\ first_missing(arguments) # 0)
       => (/\ err'.category = "APE_REQUIRED"
           /\ err'.argument_name = short_first_name(arguments[first_missing(arguments)])
           /\ arguments' = arguments)]_vars

HelpLong == <<"-", "-", "h", "e", "l", "p">>

FatalErrorReturns ==
    [][(pc \in {"rie_continue", "rie_return"} /\ err.occurred /\ error_is_fatal(err))
       => (pc' = "done" /\ err' = err)]_vars

\* C10: when an int-typed scalar option is followed by a token that is no
\* registered name and no valid integer, parse ends failed with TypeError whose
\* argument name and message name that option.
IntValueTypeError ==
    (/\ pc \in {"done", "exited"} /\ ret = NoRet
     /\ i \in 2..(Len(argv) - 1)
     /\ hash_find_argument(Parser, Tok(argv, i - 1)) # 0
     /\ arguments[hash_find_argument(Parser, Tok(argv, i - 1))].type = "ARG_INT"
     /\ ~hash_is_argument(Parser, Tok(argv, i))
     /\ ~get_safe_int(Tok(argv, i)).ok)
    => (/\ err.occurred
        /\ err.category = "APE_TYPE"
        /\ err.argument_name
             \in NamesOf(arguments[hash_find_argument(Parser, Tok(argv, i - 1))]))

\* parse_single_value raises TypeError naming the option by its long name, or by
\* its short name if it has no long name.
IntValueRaisesTypeError ==
    (/\ pc = "rie_continue"
     /\ i \in 2..(Len(argv) - 1)
     /\ hash_find_argument(Parser, Tok(argv, i - 1)) # 0
     /\ arguments[hash_find_argument(Parser, Tok(argv, i - 1))].type = "ARG_INT"
     /\ ~get_safe_int(Tok(argv, i)).ok)
    => (/\ err.category = "APE_TYPE"
        /\ err.argument_name
             = long_first_name(arguments[hash_find_argument(Parser, Tok(argv, i - 1))]))

(***************************************************************************)
(* List options: an int list with delimiter and suffix, a flag             *)
(***************************************************************************)

\* How many tokens the argument vectors of the list runs hold at most behind the
\* program name.
MaxListArgs == 4

ListPool ==
    { DefineCall("argparse_add_list_argument_ex", <<"-", "n">>,
                 <<"-", "-", "n", "u", "m", "s">>, "ARG_INT_LIST", FALSE, <<>>, "=", ","),
      DefineCall("argparse_add_argument", <<"-", "v">>, NULL, "ARG_BOOL", FALSE, <<>>,
                 NUL, NUL) }

ListTokens ==
    { <<"-", "n">>, <<"-", "-", "n", "u", "m", "s", "=", "4", ",", "5">>, <<"1">>,
      <<"2", ",", ",", "3">>, <<"-", "v">> }

ListDefine == \E e \in ListPool : ~Defined(e) /\ Define(e)

ListParse == \E av \in Argvs(ListTokens, MaxListArgs) : ParseBegin(av)

ListGetIntList == \E name \in { <<"-", "n">>, <<"-", "-", "n", "u", "m", "s">> } : GetIntList(name)

NextList ==
    \/ ListDefine
    \/ ListParse
    \/ ParseToken
    \/ ReturnIfError
    \/ ParseValidate
    \/ ListGetIntList

SpecList == Init /\ [][NextList]_vars

\* The non-empty maximal delimiter-free segments of text from position a on, in
\* left-to-right order.
SegmentStarts(text, d) ==
    { a \in 1..Len(text) : text[a] # d /\ (a = 1 \/ text[a - 1] = d) }

SegmentEnd(text, d, a) ==
    CHOOSE b \in a..Len(text) :
        /\ \A m \in a..b : text[m] # d
        /\ b = Len(text) \/ text[b + 1] = d

RECURSIVE SegmentsFrom(_, _, _)
SegmentsFrom(text, d, a) ==
    IF \A b \in SegmentStarts(text, d) : b < a THEN <<>>
    ELSE <<SubSeq(text,
                  CHOOSE b \in SegmentStarts(text, d) :
                      b >= a /\ \A c \in SegmentStarts(text, d) : c >= a => b <= c,
                  SegmentEnd(text, d,
                      CHOOSE b \in SegmentStarts(text, d) :
                          b >= a /\ \A c \in SegmentStarts(text, d) : c >= a => b <= c))>>
         \o SegmentsFrom(text, d,
                1 + SegmentEnd(text, d,
                        CHOOSE b \in SegmentStarts(text, d) :
                            b >= a /\ \A c \in SegmentStarts(text, d) : c >= a => b <= c))

Segments(text, d) == SegmentsFrom(text, d, 1)

\* The integers the segments denote.
IntsOf(segments) == [j \in 1..Len(segments) |-> get_safe_int(segments[j]).val]

\* The token at position n of argv stands where an option is read: it is a
\* registered name or a GNU-joined form.
IsOptionToken(n) ==
    hash_find_argument(Parser, Tok(argv, n)) # 0 \/ is_gnu_argument(arguments, Tok(argv, n)) # 0

\* The option token that the token at position n belongs to: the nearest option
\* token at or before n, 0 if there is none.
OwnerOf(n) ==
    IF \E m \in 1..n : IsOptionToken(m)
    THEN CHOOSE m \in 1..n : IsOptionToken(m) /\ \A j \in (m + 1)..n : ~IsOptionToken(j)
    ELSE 0

\* The values the token at position n supplies for the list option at position k.
SuppliedAt(n, k) ==
    IF hash_find_argument(Parser, Tok(argv, n)) # 0 THEN <<>>
    ELSE IF is_gnu_argument(arguments, Tok(argv, n)) = k
    THEN IntsOf(Segments(gnu_value(arguments[k], Tok(argv, n)), delimiter_of(arguments[k])))
    ELSE IF is_gnu_argument(arguments, Tok(argv, n)) # 0 \/ OwnerOf(n) = 0 THEN <<>>
    ELSE IF hash_find_argument(Parser, Tok(argv, OwnerOf(n))) = k
    THEN IntsOf(Segments(Tok(argv, n), delimiter_of(arguments[k])))
    ELSE <<>>

\* The values the command line supplies for the list option at position k, in
\* command-line order, from position n of argv on.
RECURSIVE SuppliedFrom(_, _)
SuppliedFrom(n, k) ==
    IF n >= Len(argv) THEN <<>> ELSE SuppliedAt(n, k) \o SuppliedFrom(n + 1, k)

\* parse has ended without error: it ran the validation and returned.
ParsedWithoutError == pc = "done" /\ validated

\* C4: after a parse that ends without error, get_int_list(name) returns exactly
\* the values supplied for that list option, in command-line order, and their
\* number as count.
IntListInCommandLineOrder ==
    (/\ ParsedWithoutError
     /\ ret.op = "get_int_list"
     /\ hash_find_argument(Parser, ret.name) # 0)
    => (/\ ret.values = SuppliedFrom(1, hash_find_argument(Parser, ret.name))
        /\ ret.count = Len(ret.values))

\* get_int_list has returned values that came as separate tokens, split from one
\* delimiter-joined token and from a second occurrence of the option.
IntListFromAllForms ==
    /\ ParsedWithoutError
    /\ ret.op = "get_int_list"
    /\ ret.count = 5
    /\ argv = <<Prog, <<"-", "-", "n", "u", "m", "s", "=", "4", ",", "5">>, <<"-", "n">>,
                <<"1">>, <<"2", ",", ",", "3">>>>

(***************************************************************************)
(* GNU-joined options: two definitions with the same clean name            *)
(***************************************************************************)

GnuPool ==
    { DefineCall("argparse_add_argument_ex", <<"-", "o">>, <<"-", "-", "o", "u", "t">>,
                 "ARG_STRING", FALSE, <<>>, "=", NUL),
      DefineCall("argparse_add_argument_ex", <<"-", "-", "o">>, NULL, "ARG_INT", FALSE,
                 <<>>, "=", NUL),
      DefineCall("argparse_add_argument_ex", <<"-", "v">>, NULL, "ARG_BOOL", FALSE, <<>>,
                 ":", NUL) }

GnuTokens ==
    { <<"-", "-", "o", "u", "t", "=", "f">>, <<"-", "-", "o", "=", "7">>,
      <<"-", "o", "=", "x">>, <<"-", "v", ":">>, <<"-", "v">>, <<"7">> }

GnuDefine == \E e \in GnuPool : ~Defined(e) /\ Define(e)

GnuParse == \E av \in Argvs(GnuTokens, MaxArgs) : ParseBegin(av)

NextGnu ==
    \/ GnuDefine
    \/ GnuParse
    \/ ParseToken
    \/ ReturnIfError
    \/ ParseValidate

SpecGnu == Init /\ [][NextGnu]_vars

\* s without its leading non-alphanumeric characters.
Stripped(s) == StrFrom(s, skip_dynamic_prefix(s))

\* token has the form <name>c<value> for the definition arg with suffix c: c
\* occurs in it, and the text before its first occurrence, stripped, is the
\* stripped short or long name of arg.
HasGnuForm(arg, token) ==
    /\ arg.suffix # NUL
    /\ strchr(token, arg.suffix) > 1
    /\ Stripped(SubSeq(token, 1, strchr(token, arg.suffix) - 1)) # <<>>
    /\ \E name \in NamesOf(arg) :
            Stripped(name) = Stripped(SubSeq(token, 1, strchr(token, arg.suffix) - 1))

\* The <value> part of a token of the form <name>c<value>.
JoinedValue(arg, token) == SubSeq(token, strchr(token, arg.suffix) + 1, Len(token))

\* text converts to the type of arg.
Converts(arg, text) ==
    CASE arg.type = "ARG_INT" -> get_safe_int(text).ok
      [] arg.type = "ARG_BOOL" -> text = <<>> \/ lower_val(text) \in TrueWords \cup FalseWords
      [] OTHER -> TRUE

\* The value of type arg.type that text denotes.
Converted(arg, text) ==
    CASE arg.type = "ARG_INT" -> get_safe_int(text).val
      [] arg.type = "ARG_BOOL" -> text = <<>> \/ lower_val(text) \in TrueWords
      [] OTHER -> text

\* The step of the scan at a token gives the definition at position k the value
\* of the token, marks it set, raises no error and stays on the token.
AssignsJoined(k) ==
    /\ arguments'[k].set
    /\ arguments'[k].value = Converted(arguments[k], JoinedValue(arguments[k], Tok(argv, i)))
    /\ ~err'.occurred
    /\ i' = i
    /\ pc' = "rie_continue"

\* C8 as the spec words it: a token <name>c<value> is assigned to every
\* definition with suffix c whose stripped name is <name> stripped (the value
\* being one that converts to the definition's type), and the token behind it
\* is scanned as a new option token.
GnuJoinedAssignsEachMatch ==
    [][/\ (pc = "scan" /\ i < Len(argv))
          => \A k \in 1..Len(arguments) :
                (HasGnuForm(arguments[k], Tok(argv, i))
                 /\ Converts(arguments[k], JoinedValue(arguments[k], Tok(argv, i))))
                => AssignsJoined(k)
       /\ (pc = "rie_continue" /\ ~err.occurred) => (pc' = "scan" /\ i' = i + 1)]_vars

\* The definition at position k is the first in declaration order that token
\* has the GNU-joined form of.
FirstGnuForm(k, token) ==
    /\ HasGnuForm(arguments[k], token)
    /\ \A j \in 1..(k - 1) : ~HasGnuForm(arguments[j], token)

\* C8: a token <name>c<value> is assigned to the first definition in declaration
\* order with suffix c whose stripped name is <name> stripped, if the value
\* converts to that definition's type: the definition is marked set, no other
\* definition changes, and the token behind it is scanned as a new option token.
GnuJoinedAssignsFirstMatch ==
    [][/\ (pc = "scan" /\ i < Len(argv))
          => \A k \in 1..Len(arguments) :
                (FirstGnuForm(k, Tok(argv, i))
                 /\ Converts(arguments[k], JoinedValue(arguments[k], Tok(argv, i))))
                => (/\ AssignsJoined(k)
                    /\ \A j \in 1..Len(arguments) : j # k => arguments'[j] = arguments[j])
       /\ (pc = "rie_continue" /\ ~err.occurred) => (pc' = "scan" /\ i' = i + 1)]_vars

\* The scan stands on a token behind a GNU-joined token that two definitions have
\* the form of and that was assigned to the first of them.
GnuJoinedBehindTie ==
    /\ pc = "scan"
    /\ i = 2
    /\ 2 < Len(argv)
    /\ \E j, k \in 1..Len(arguments) :
            /\ j < k
            /\ HasGnuForm(arguments[j], Tok(argv, 1))
            /\ HasGnuForm(arguments[k], Tok(argv, 1))
            /\ arguments[j].set
            /\ ~arguments[k].set

(***************************************************************************)
(* parse_list_with_delimiter on its own: one value text, one list option   *)
(***************************************************************************)

\* How many characters a value text holds at most.
MaxLen == 4

TextAlphabet == {"1", "2", ",", ";"}

Texts == UNION { [1..m -> TextAlphabet] : m \in 0..MaxLen }

\* A parser with one list option of the given type and delimiter, and a value
\* text that is about to be handed to parse_list_with_delimiter.
InitSplit ==
    /\ \E type \in {"ARG_INT_LIST", "ARG_STRING_LIST"} : \E delimiter \in {",", ";"} :
            Holds(add_list_argument_ex(argparse_new, <<"-", "n">>, NULL, type, FALSE, "=",
                                       delimiter, <<0, 1>>))
    /\ \E text \in Texts : argv = <<Prog, text>>
    /\ help_requested = FALSE
    /\ program_name = NULL
    /\ pc = "split"
    /\ i = 1
    /\ helps = 0
    /\ validated = FALSE
    /\ ret = NoRet

\* The call parse_list_with_delimiter(arg, value_str) for the list option.
SplitValue ==
    /\ pc = "split"
    /\ StoreParsed(2, parse_list_with_delimiter(arguments[2], Tok(argv, 1),
                                                 NodeFails(heap.fail, 1)))
    /\ pc' = "split_done"
    /\ UNCHANGED <<argument_count, hash_table, hash_enabled, help_added, help_requested,
                   program_name, argv, i, helps, validated, ret>>

NextSplit == SplitValue

SpecSplit == InitSplit /\ [][NextSplit]_vars

\* Every segment converts to the element type of the list option arg.
SegmentsConvert(arg, segments) ==
    arg.type = "ARG_INT_LIST"
        => \A j \in 1..Len(segments) : Len(segments[j]) < 32 /\ get_safe_int(segments[j]).ok

\* The elements the segments denote for the list option arg.
ElementsOf(arg, segments) ==
    IF arg.type = "ARG_INT_LIST" THEN IntsOf(segments) ELSE segments

\* C9: splitting a value text on the delimiter d yields exactly its non-empty
\* maximal d-free segments in left-to-right order (leading, trailing and
\* consecutive delimiters give no element), and a text with no non-empty segment
\* fails with SyntaxError and yields nothing.
SplitYieldsSegments ==
    pc = "split_done"
    => IF Segments(Tok(argv, 1), delimiter_of(arguments[2])) = <<>>
       THEN /\ err.occurred /\ err.category = "APE_SYNTAX"
            /\ arguments[2].value = <<>>
            /\ ~arguments[2].set
       ELSE SegmentsConvert(arguments[2], Segments(Tok(argv, 1), delimiter_of(arguments[2])))
            => (/\ ~err.occurred
                /\ arguments[2].set
                /\ arguments[2].value
                     = ElementsOf(arguments[2],
                                  Segments(Tok(argv, 1), delimiter_of(arguments[2]))))

\* The text 1,,2 has been split into [1, 2].
SplitSkipsEmptyRun ==
    /\ pc = "split_done"
    /\ Tok(argv, 1) = <<"1", ",", ",", "2">>
    /\ arguments[2].type = "ARG_INT_LIST"
    /\ arguments[2].delimiter = ","
    /\ arguments[2].value = <<1, 2>>

(***************************************************************************)
(* Boolean words: a flag with suffix ':' given one GNU-joined token        *)
(***************************************************************************)

\* How many bytes the longest boolean value token holds.
MaxWordLen == 65

BoolFlag ==
    DefineCall("argparse_add_argument_ex", <<"-", "v">>, NULL, "ARG_BOOL", FALSE, <<>>,
               ":", NUL)

toupper(c) == IF Ord(c) \in 97..122 THEN Chr(Ord(c) - 32) ELSE c

\* word as written, in capitals, and with a capital first letter.
Spellings(word) ==
    { word, [k \in 1..Len(word) |-> toupper(word[k])],
      [k \in 1..Len(word) |-> IF k = 1 THEN toupper(word[k]) ELSE word[k]] }

\* word followed by the letter x up to n bytes.
Padded(word, n) == [k \in 1..n |-> IF k <= Len(word) THEN word[k] ELSE "x"]

\* The value tokens of the runs: the boolean words in three spellings, the empty
\* value, other short words, and tokens of 62 to MaxWordLen bytes.
BoolValues ==
    UNION { Spellings(word) : word \in TrueWords \cup FalseWords }
    \cup { <<>>, <<"2">>, <<"t", "r", "u">>, <<"t", "r", "u", "e", "e">>, <<"y">>,
           <<"m", "a", "y", "b", "e">>, <<" ", "o", "n">> }
    \cup { Padded(<<>>, n) : n \in 62..MaxWordLen }
    \cup { Padded(<<"t", "r", "u", "e">>, n) : n \in 62..MaxWordLen }

BoolDefine == ~Defined(BoolFlag) /\ Define(BoolFlag)

BoolParse ==
    /\ Defined(BoolFlag)
    /\ \E value \in BoolValues : ParseBegin(<<Prog, <<"-", "v", ":">> \o value>>)

NextBool ==
    \/ BoolDefine
    \/ BoolParse
    \/ ParseToken
    \/ ReturnIfError
    \/ ParseValidate

SpecBool == Init /\ [][NextBool]_vars

\* The texts a and b are equal up to the case of their letters.
SameIgnoringCase(a, b) ==
    /\ Len(a) = Len(b)
    /\ \A k \in 1..Len(a) :
            \/ a[k] = b[k]
            \/ /\ Ord(a[k]) \in (65..90) \cup (97..122)
               /\ Ord(b[k]) \in (65..90) \cup (97..122)
               /\ (Ord(a[k]) - Ord(b[k])) \in {32, 0 - 32}

WordsForTrue ==
    { <<"t", "r", "u", "e">>, <<"1">>, <<"y", "e", "s">>, <<"o", "n">>,
      <<"e", "n", "a", "b", "l", "e">>, <<"e", "n", "a", "b", "l", "e", "d">> }

WordsForFalse ==
    { <<"f", "a", "l", "s", "e">>, <<"0">>, <<"n", "o">>, <<"o", "f", "f">>,
      <<"d", "i", "s", "a", "b", "l", "e">>, <<"d", "i", "s", "a", "b", "l", "e", "d">> }

\* The value part of the token -v:<value> the scan stands on.
InlineValue == StrFrom(Tok(argv, 1), 4)

\* The flag holds b, is marked set, and no error is raised.
FlagStored(b) ==
    /\ arguments[2].set
    /\ arguments[2].value = b
    /\ ~err.occurred

\* The error of the given category is raised and the flag is as it was defined.
FlagFails(category) ==
    /\ err.occurred
    /\ err.category = category
    /\ ~arguments[2].set
    /\ arguments[2].value = FALSE

\* C11: the inline value of a GNU-joined boolean option, compared without regard
\* to case: true/1/yes/on/enable/enabled store true, false/0/no/off/disable/
\* disabled store false, the empty value stores true, any other word of at most
\* 63 bytes raises TypeError, and a value of more than 63 bytes raises RangeError.
BoolWordStoredOrRejected ==
    (pc = "rie_continue" /\ i = 1)
    => IF InlineValue = <<>> THEN FlagStored(TRUE)
       ELSE IF Len(InlineValue) > 63 THEN FlagFails("APE_RANGE")
       ELSE IF \E word \in WordsForTrue : SameIgnoringCase(InlineValue, word)
       THEN FlagStored(TRUE)
       ELSE IF \E word \in WordsForFalse : SameIgnoringCase(InlineValue, word)
       THEN FlagStored(FALSE)
       ELSE FlagFails("APE_TYPE")

\* The token -v:OFF has stored false.
BoolCapitalsStored ==
    /\ pc = "rie_continue"
    /\ i = 1
    /\ InlineValue = <<"O", "F", "F">>
    /\ FlagStored(FALSE)

(***************************************************************************)
(* Define calls that carry a help name                                     *)
(***************************************************************************)

RedefinePool ==
    { DefineCall("argparse_add_argument", <<"-", "h">>, NULL, "ARG_INT", FALSE, <<>>,
                 NUL, NUL),
      DefineCall("argparse_add_argument", NULL, <<"-", "-", "h", "e", "l", "p">>,
                 "ARG_STRING", FALSE, <<>>, NUL, NUL),
      DefineCall("argparse_add_argument_ex", <<"-", "x">>,
                 <<"-", "-", "h", "e", "l", "p">>, "ARG_INT", TRUE, <<>>, "=", NUL),
      DefineCall("argparse_add_list_argument", <<"-", "h">>,
                 <<"-", "-", "l", "i", "s", "t">>, "ARG_INT_LIST", FALSE, <<>>, NUL, NUL),
      DefineCall("argparse_add_argument", <<"-", "r">>, <<"-", "-", "r", "o", "u", "n", "d">>,
                 "ARG_INT", FALSE, <<>>, NUL, NUL) }

Redefine == \E e \in RedefinePool : ~Defined(e) /\ Define(e)

NextRedefine == Redefine

SpecRedefine == Init /\ [][NextRedefine]_vars

\* The define call e carries a help name.
HelpNamed(e) == is_help_argument(e.short_name) \/ is_help_argument(e.long_name)

\* C12: on a parser created by new, a define call whose short or long name is a
\* help name is a silent no-op: no error is set, and the Registry and the Lookup
\* Index are unchanged (same definitions in the same order, same count).
HelpRedefineIsNoOp ==
    [][\A e \in RedefinePool :
            (HelpNamed(e) /\ ~Defined(e) /\ Define(e))
            => (/\ ~err'.occurred
                /\ arguments' = arguments
                /\ argument_count' = argument_count
                /\ hash_table' = hash_table
                /\ hash_enabled' = hash_enabled)]_vars

\* What does hold: the lookup of a help name, made by the linear scan, still
\* returns the help definition new registered.
HelpFoundFirst ==
    /\ hash_find_argument(Parser, <<"-", "h">>) = 1
    /\ hash_find_argument(Parser, <<"-", "-", "h", "e", "l", "p">>) = 1

(***************************************************************************)
(* Help and failure told apart by the error code (scalar runs)             *)
(***************************************************************************)

\* parse has returned on a help request: the vector held the program name only,
\* or the scan stopped on a help token; no accessor has run since.
HelpSignalled ==
    /\ pc = "done"
    /\ ret = NoRet
    /\ \/ Len(argv) = 1
       \/ i < Len(argv) /\ is_help_argument(Tok(argv, i))

\* C13: whenever parse signals HelpRequested (program name only, or a help
\* token), occurred() is true, last_error_code() is 0 and last_error_message()
\* is not empty; whenever the error state holds a fatal category,
\* last_error_code() is not zero.
HelpToldByCode ==
    /\ HelpSignalled
         => (/\ err.occurred
             /\ err.category = "APE_HELP_REQUESTED"
             /\ err.errno_value = 0
             /\ err.message # <<>>)
    /\ (err.occurred /\ error_is_fatal(err)) => err.errno_value # 0

\* parse has returned on the vector prog --help with the code 0 and a message.
HelpTokenCodeZero ==
    /\ HelpSignalled
    /\ argv = <<Prog, HelpLong>>
    /\ err.errno_value = 0
    /\ err.message # <<>>

(***************************************************************************)
(* argparse_free and the heap                                              *)
(***************************************************************************)

\* The heap after argparse_hash_destroy_internal(table): every entry and its key,
\* the bucket array and the table freed.
hash_destroy_heap(h, table) ==
    free_each(h, entry_blocks(table)
                 \cup {Block("buckets", table.capacity, 0, <<>>), Block("table", 0, 0, <<>>)})

\* free_argument that frees the nodes of a list but not the elements they hold.
free_argument_nodes_only(arg, k) ==
    {Block("help", k, 0, <<>>), Block("Argument", k, 0, <<>>)}
    \cup (IF arg.short_name # NULL THEN {Block("short_name", k, 0, <<>>)} ELSE {})
    \cup (IF arg.long_name # NULL THEN {Block("long_name", k, 0, <<>>)} ELSE {})
    \cup (IF arg.type = "ARG_STRING" /\ arg.value = NULL THEN {}
          ELSE IF is_list_type(arg.type)
          THEN { Block("node", k, n, <<>>) : n \in 1..Len(arg.value) }
               \cup (IF arg.handle THEN {Block("value", k, 0, <<>>)} ELSE {})
          ELSE {Block("value", k, 0, <<>>)})

\* The blocks free_argument(arg) gives to free, arg at position k: the names and
\* the help text, the value (for a list every element, every node and the list
\* handle), and the struct; free(NULL) does nothing.
free_argument(arg, k) ==
    {Block("help", k, 0, <<>>), Block("Argument", k, 0, <<>>)}
    \cup (IF arg.short_name # NULL THEN {Block("short_name", k, 0, <<>>)} ELSE {})
    \cup (IF arg.long_name # NULL THEN {Block("long_name", k, 0, <<>>)} ELSE {})
    \cup (IF arg.type = "ARG_STRING" /\ arg.value = NULL THEN {}
          ELSE IF is_list_type(arg.type)
          THEN UNION { {Block("data", k, n, <<>>), Block("node", k, n, <<>>)} :
                          n \in 1..Len(arg.value) }
               \cup (IF arg.handle THEN {Block("value", k, 0, <<>>)} ELSE {})
          ELSE {Block("value", k, 0, <<>>)})

\* The heap after the while loop of argparse_free: free_argument on every
\* Argument of the list, each struct being a block of its own.
free_arguments(h, args) ==
    free_each(h, UNION { free_argument(args[k], k) : k \in 1..Len(args) })

\* The heap after the index and the Arguments are freed.
free_registry(h, P) ==
    free_arguments(IF P.hash_table # NoTable THEN hash_destroy_heap(h, P.hash_table)
                   ELSE h, P.arguments)

\* The heap after argparse_free(parser).
argparse_free(h, P, name) ==
    free(free(IF name # NULL
              THEN free(free_registry(h, P), Block("program_name", 0, 0, <<>>))
              ELSE free_registry(h, P),
              Block("description", 0, 0, <<>>)),
         Block("ArgParser", 0, 0, <<>>))

\* A call of argparse_free by the application, outside argparse_parse.
ArgparseFree ==
    /\ pc \in {"ready", "done"}
    /\ heap' = argparse_free(heap, Parser, program_name)
    /\ err' = error_clear
    /\ pc' = "freed"
    /\ UNCHANGED <<arguments, argument_count, hash_table, hash_enabled, help_added,
                   help_requested, program_name, argv, i, helps, validated, ret>>

\* How many definitions the heap runs register at most, the help option included:
\* enough for the index to be built.
MaxHeapDefs == 17

\* How many tokens the argument vectors of the heap runs hold at most behind the
\* program name.
MaxHeapArgs == 3

HeapTokens ==
    { <<"-", "s">>, <<"x">>, <<"-", "n">>, <<"1", ",", "2">>, <<"-", "w">> }

\* The n-th define call of the heap runs: a string with a default, an int list
\* with a delimiter, a string list, then options with names of their own.
HeapDefine ==
    /\ Len(arguments) < MaxHeapDefs
    /\ \E seed \in IF argument_count + 1 = ARGPARSE_HASH_THRESHOLD THEN Seeds
                   ELSE {<<0, 1>>} :
         IF Len(arguments) = 1
         THEN AddArgument(<<"-", "s">>, <<"-", "-", "s", "t", "r">>, "ARG_STRING", FALSE,
                          << <<"d">> >>, seed)
         ELSE IF Len(arguments) = 2
         THEN AddListArgumentEx(<<"-", "n">>, <<"-", "-", "n", "s">>, "ARG_INT_LIST",
                                FALSE, "=", ",", seed)
         ELSE IF Len(arguments) = 3
         THEN AddListArgument(<<"-", "w">>, NULL, "ARG_STRING_LIST", FALSE, seed)
         ELSE AddArgument(ShortName(Len(arguments)), LongName(Len(arguments)),
                          IF Len(arguments) % 2 = 0 THEN "ARG_STRING" ELSE "ARG_INT",
                          FALSE, <<>>, seed)

HeapParse == \E av \in Argvs(HeapTokens, MaxHeapArgs) : ParseBegin(av)

HeapGetIntList == GetIntList(<<"-", "n">>)

NextHeap ==
    \/ HeapDefine
    \/ HeapParse
    \/ ParseToken
    \/ ReturnIfError
    \/ ParseValidate
    \/ HeapGetIntList
    \/ ArgparseFree

SpecHeap == Init /\ [][NextHeap]_vars

\* C14: after any sequence of new, define, parse and list-accessor calls,
\* argparse_free releases every block the parser owns exactly once: no block is
\* lost before it, no block stays allocated behind it, and no free is given a
\* block that is not allocated.
FreeReleasesEveryBlockOnce ==
    /\ heap.lost = 0
    /\ heap.bad = 0
    /\ pc = "freed" => heap.live = {}

\* argparse_free has run on a parser whose index was built and whose int list
\* holds two elements.
FreedIndexAndLists ==
    /\ pc = "freed"
    /\ hash_table # NoTable
    /\ hash_table.size > 2 * ARGPARSE_HASH_THRESHOLD - 4
    /\ Len(arguments) > 3
    /\ Len(arguments[3].value) = 2
    /\ heap.live = {}

(***************************************************************************)
(* List define calls with list types and with scalar types                 *)
(***************************************************************************)

ListDefinePool ==
    { DefineCall("argparse_add_list_argument", <<"-", "a">>, NULL, "ARG_INT", FALSE, <<>>,
                 NUL, NUL),
      DefineCall("argparse_add_list_argument", <<"-", "b">>, NULL, "ARG_STRING", TRUE,
                 <<>>, NUL, NUL),
      DefineCall("argparse_add_list_argument", <<"-", "c">>, NULL, "ARG_INT_LIST", FALSE,
                 <<>>, NUL, NUL),
      DefineCall("argparse_add_list_argument_ex", <<"-", "d">>, NULL, "ARG_INT", FALSE,
                 <<>>, "=", ","),
      DefineCall("argparse_add_list_argument_ex", <<"-", "e">>, NULL, "ARG_BOOL", FALSE,
                 <<>>, NUL, ";"),
      DefineCall("argparse_add_list_argument_ex", <<"-", "f">>, NULL, "ARG_STRING_LIST",
                 FALSE, <<>>, "=", ","),
      DefineCall("argparse_add_list_argument_ex", <<"-", "g">>, NULL, "ARG_DOUBLE_LIST",
                 FALSE, <<>>, NUL, ";") }

ListDefineCall == \E e \in ListDefinePool : ~Defined(e) /\ Define(e)

NextListDefine == ListDefineCall

SpecListDefine == Init /\ [][NextListDefine]_vars

\* C15: define_list and define_list_ex called with a type that is not one of the
\* three list kinds fail with ConfigError and add no definition to the Registry;
\* every definition they do add has a list type tag and is_list true.
ListDefineRejectsScalarType ==
    [][\A e \in ListDefinePool :
            (~Defined(e) /\ Define(e))
            => IF e.type \in ListTypes
               THEN /\ Len(arguments') = Len(arguments) + 1
                    /\ arguments'[Len(arguments')].type = e.type
                    /\ arguments'[Len(arguments')].is_list
               ELSE /\ err'.occurred
                    /\ err'.category = "APE_CONFIG"
                    /\ arguments' = arguments]_vars

\* What does hold: argparse_add_list_argument_ex adds a definition only for a list
\* type, and raises an error and adds nothing otherwise.
ListDefineExChecksType ==
    [][\A e \in ListDefinePool :
            (e.api = "argparse_add_list_argument_ex" /\ ~Defined(e) /\ Define(e))
            => IF e.type \in ListTypes
               THEN /\ Len(arguments') = Len(arguments) + 1
                    /\ arguments'[Len(arguments')].is_list
               ELSE /\ err'.occurred
                    /\ arguments' = arguments]_vars

(***************************************************************************)
(* argparse_parse on the bare program name                                 *)
(***************************************************************************)

BareProgram == Len(argv) = 1

\* C16: when the token vector holds only the program name (argc == 1), parse
\* renders help, signals HelpRequested (non-fatal) and stops: no definition's
\* value or set flag changes and the validation of the required arguments is not
\* run, even if required definitions exist.
BareProgramShowsHelp ==
    /\ [](BareProgram /\ ret = NoRet
          => /\ pc \in {"rie_return", "done"}
             /\ helps = 1
             /\ err.occurred /\ err.category = "APE_HELP_REQUESTED"
             /\ ~error_is_fatal(err)
             /\ ~validated)
    /\ [][BareProgram' /\ ret' = NoRet => arguments' = arguments]_vars

BareProgramRequiredUnset ==
    /\ BareProgram /\ pc = "done" /\ ret = NoRet
    /\ helps = 1
    /\ \E k \in 1..Len(arguments) : arguments[k].required /\ ~arguments[k].set

(***************************************************************************)
(* The run of value tokens behind a list option                            *)
(***************************************************************************)

\* The token at position n of argv is dispatched to the list branch of the loop
\* body: it is no GNU-joined form, no help spelling, and the name of a list option.
ListOptionAt(n) ==
    /\ n >= 1 /\ n < Len(argv)
    /\ is_gnu_argument(arguments, Tok(argv, n)) = 0
    /\ ~is_help_argument(Tok(argv, n))
    /\ hash_find_argument(Parser, Tok(argv, n)) # 0
    /\ arguments[hash_find_argument(Parser, Tok(argv, n))].is_list

\* The position behind the maximal run of tokens from position n on that are no
\* registered names: the first registered name, or the end of the vector.
RunEnd(n) ==
    CHOOSE m \in n..Len(argv) :
        /\ IF m = Len(argv) THEN TRUE ELSE hash_is_argument(Parser, Tok(argv, m))
        /\ \A j \in n..(m - 1) : ~hash_is_argument(Parser, Tok(argv, j))

\* Every token at the positions n..(m - 1) denotes elements of the list option at
\* position k.
RunConverts(k, n, m) ==
    \A j \in n..(m - 1) :
        /\ Segments(Tok(argv, j), delimiter_of(arguments[k])) # <<>>
        /\ SegmentsConvert(arguments[k], Segments(Tok(argv, j), delimiter_of(arguments[k])))

\* The elements the tokens at the positions n..(m - 1) denote, in order.
RECURSIVE RunValues(_, _, _)
RunValues(k, n, m) ==
    IF n >= m THEN <<>>
    ELSE ElementsOf(arguments[k], Segments(Tok(argv, n), delimiter_of(arguments[k])))
         \o RunValues(k, n + 1, m)

\* The step at a list option takes the maximal run behind it as its values, and
\* leaves the cursor on the last token of the run.
ConsumesRun ==
    (pc = "scan" /\ ListOptionAt(i) /\ RunEnd(i + 1) > i + 1
     /\ RunConverts(hash_find_argument(Parser, Tok(argv, i)), i + 1, RunEnd(i + 1)))
    => (/\ ~err'.occurred
        /\ i' = RunEnd(i + 1) - 1
        /\ arguments'[hash_find_argument(Parser, Tok(argv, i))].set
        /\ arguments'[hash_find_argument(Parser, Tok(argv, i))].value
             = arguments[hash_find_argument(Parser, Tok(argv, i))].value
               \o RunValues(hash_find_argument(Parser, Tok(argv, i)), i + 1, RunEnd(i + 1))
        /\ \A k \in 1..Len(arguments) :
              k # hash_find_argument(Parser, Tok(argv, i)) => arguments'[k] = arguments[k])

\* The option scanned behind a run is the first token behind it.
ScansBehindRun ==
    (pc = "rie_continue" /\ ~err.occurred) => (pc' = "scan" /\ i' = i + 1)

\* C17: a list option takes as values exactly the maximal run of following tokens
\* that are no registered names, the next token scanned as an option is the first
\* one behind the run, and with an empty run parse ends failed with SyntaxError.
ListRunConsumedOrSyntaxError ==
    /\ [][ConsumesRun /\ ScansBehindRun]_vars
    /\ []((pc \in {"done", "exited"} /\ ret = NoRet
           /\ ListOptionAt(i) /\ RunEnd(i + 1) = i + 1)
          => (err.occurred /\ err.category = "APE_SYNTAX"))

\* What does hold: the run is taken whole, the scan goes on behind it, and the step
\* at a list option with an empty run raises SyntaxError and stores nothing.
ListRunConsumedStep ==
    [][/\ ConsumesRun
       /\ ScansBehindRun
       /\ (pc = "scan" /\ ListOptionAt(i) /\ RunEnd(i + 1) = i + 1)
          => (/\ err'.occurred /\ err'.category = "APE_SYNTAX"
              /\ arguments' = arguments /\ i' = i)]_vars

\* The spec's example: -n 1 2,,3 -v has given -n the values 1, 2, 3 and set -v.
ListRunExample ==
    /\ pc = "done" /\ validated /\ ~err.occurred
    /\ argv = <<Prog, <<"-", "n">>, <<"1">>, <<"2", ",", ",", "3">>, <<"-", "v">>>>
    /\ Len(arguments) = 3
    /\ \E k \in 2..3 : arguments[k].value = <<1, 2, 3>>
    /\ \E k \in 2..3 : arguments[k].type = "ARG_BOOL" /\ arguments[k].value = TRUE

(***************************************************************************)
(* The value token behind a scalar option, and tokens that are no option   *)
(***************************************************************************)

\* The token at position n of argv is dispatched to the scalar branch of the loop
\* body: no GNU-joined form, no help spelling, the name of an option that is
\* neither a boolean nor a list.
ScalarOptionAt(n) ==
    /\ n >= 1 /\ n < Len(argv)
    /\ is_gnu_argument(arguments, Tok(argv, n)) = 0
    /\ ~is_help_argument(Tok(argv, n))
    /\ hash_find_argument(Parser, Tok(argv, n)) # 0
    /\ arguments[hash_find_argument(Parser, Tok(argv, n))].type # "ARG_BOOL"
    /\ ~arguments[hash_find_argument(Parser, Tok(argv, n))].is_list

\* The option at position n of argv has a value token behind it: a token that is
\* no registered name.
HasValueToken(n) ==
    IF n + 1 < Len(argv) THEN ~hash_is_argument(Parser, Tok(argv, n + 1)) ELSE FALSE

\* The step at a scalar option with a value token reads that one token, moves the
\* cursor onto it, and stores what it denotes unless it raises an error.
TakesValueToken ==
    (pc = "scan" /\ ScalarOptionAt(i) /\ HasValueToken(i))
    => (/\ i' = i + 1
        /\ pc' = "rie_continue"
        /\ \A k \in 1..Len(arguments) :
              k # hash_find_argument(Parser, Tok(argv, i)) => arguments'[k] = arguments[k]
        /\ IF err'.occurred
           THEN arguments' = arguments
           ELSE /\ arguments'[hash_find_argument(Parser, Tok(argv, i))].set
                /\ arguments'[hash_find_argument(Parser, Tok(argv, i))].value
                     = IF arguments[hash_find_argument(Parser, Tok(argv, i))].type = "ARG_INT"
                       THEN get_safe_int(Tok(argv, i + 1)).val
                       ELSE Tok(argv, i + 1))

\* The step at a scalar option without a value token raises SyntaxError and
\* stores nothing.
MissingValueRaisesSyntaxError ==
    (pc = "scan" /\ ScalarOptionAt(i) /\ ~HasValueToken(i))
    => (/\ err'.occurred /\ err'.category = "APE_SYNTAX"
        /\ arguments' = arguments
        /\ i' = i)

\* C18: a non-boolean scalar option followed by a token that is no registered name
\* takes that one token as its value and the cursor moves past it; followed by a
\* registered name, or by nothing, parse ends failed with SyntaxError and the
\* option's value and set flag are unchanged.
ScalarValueOrSyntaxError ==
    /\ [][TakesValueToken
          /\ ((pc = "scan" /\ ScalarOptionAt(i) /\ ~HasValueToken(i))
              => arguments' = arguments)]_vars
    /\ []((pc \in {"done", "exited"} /\ ret = NoRet
           /\ ScalarOptionAt(i) /\ ~HasValueToken(i))
          => (err.occurred /\ err.category = "APE_SYNTAX"))

\* What does hold, step by step.
ScalarValueStep == [][TakesValueToken /\ MissingValueRaisesSyntaxError]_vars

\* A string option has taken its value token and parse has returned.
ScalarValueTaken ==
    /\ pc = "done" /\ validated /\ ~err.occurred
    /\ \E k \in 1..Len(arguments) :
          arguments[k].type = "ARG_STRING" /\ arguments[k].set
          /\ arguments[k].value = <<"a", "b", "c">>

\* The token at position n of argv is read in option position and is no option:
\* it is not the value token of a scalar option before it, and it is no GNU-joined
\* form, no help spelling and no registered name.
UnknownAt(n) ==
    /\ n >= 1 /\ n < Len(argv)
    /\ ~(n >= 2 /\ ScalarOptionAt(n - 1))
    /\ is_gnu_argument(arguments, Tok(argv, n)) = 0
    /\ ~is_help_argument(Tok(argv, n))
    /\ ~hash_is_argument(Parser, Tok(argv, n))

\* C19: a token in option position that is no GNU-joined form, no help spelling
\* and no registered name makes parse end failed with SyntaxError whose argument
\* name is that token; the token changes no value and no set flag.
UnknownTokenSyntaxError ==
    /\ [][(pc = "scan" /\ UnknownAt(i)) => arguments' = arguments]_vars
    /\ []((pc \in {"done", "exited"} /\ ret = NoRet /\ UnknownAt(i))
          => (/\ err.occurred /\ err.category = "APE_SYNTAX"
              /\ err.argument_name = Tok(argv, i)))

\* What does hold: the step at such a token raises SyntaxError naming the token
\* and stores nothing.
UnknownTokenRaisesSyntaxError ==
    [][(pc = "scan" /\ UnknownAt(i))
       => (/\ err'.occurred /\ err'.category = "APE_SYNTAX"
           /\ err'.argument_name = Tok(argv, i)
           /\ arguments' = arguments
           /\ i' = i)]_vars

(***************************************************************************)
(* Integer conversion: an int option given one value token                 *)
(***************************************************************************)

IntOption ==
    DefineCall("argparse_add_argument", <<"-", "r">>, <<"-", "-", "r", "o", "u", "n", "d">>,
               "ARG_INT", FALSE, <<5>>, NUL, NUL)

\* The digit parts of the value tokens: none, small numbers with and without
\* leading zeros, the numbers around INT_MAX and -INT_MIN, 2^32 + 42, a number of
\* eleven digits, and a decimal fraction.
IntDigits ==
    { <<>>,
      <<"0">>,
      <<"4", "2">>,
      <<"0", "0", "4", "2">>,
      <<"2", "1", "4", "7", "4", "8", "3", "6", "4", "7">>,
      <<"2", "1", "4", "7", "4", "8", "3", "6", "4", "8">>,
      <<"2", "1", "4", "7", "4", "8", "3", "6", "4", "9">>,
      <<"4", "2", "9", "4", "9", "6", "7", "3", "3", "8">>,
      <<"9", "9", "9", "9", "9", "9", "9", "9", "9", "9", "9">>,
      <<"1", ".", "5">>,
      <<"0", "0", "0", "0", "0", "0", "0", "0", "0", "0", "1">> }

\* The value tokens of the runs: a digit part with or without a sign, a leading
\* space, a trailing space or a trailing letter; the empty token and a space.
IntValues ==
    { pre \o sign \o d \o post :
        pre \in {<<>>, <<" ">>}, sign \in {<<>>, <<"-">>, <<"+">>},
        d \in IntDigits, post \in {<<>>, <<" ">>, <<"x">>} }
    \cup { <<>>, <<" ">> }

IntDefine == ~Defined(IntOption) /\ Define(IntOption)

IntParse ==
    /\ Defined(IntOption)
    /\ \E value \in IntValues : ParseBegin(<<Prog, <<"-", "r">>, value>>)

IntGetInt == GetInt(<<"-", "r">>)

NextInt ==
    \/ IntDefine
    \/ IntParse
    \/ ParseToken
    \/ ReturnIfError
    \/ ParseValidate
    \/ IntGetInt

SpecInt == Init /\ [][NextInt]_vars

\* text without its leading and trailing spaces.
Trimmed(text) ==
    IF \A k \in 1..Len(text) : text[k] = " " THEN <<>>
    ELSE SubSeq(text,
                CHOOSE a \in 1..Len(text) :
                    text[a] # " " /\ \A j \in 1..(a - 1) : text[j] = " ",
                CHOOSE b \in 1..Len(text) :
                    text[b] # " " /\ \A j \in (b + 1)..Len(text) : text[j] = " ")

\* text without a leading sign.
Unsigned(text) ==
    IF text # <<>> /\ text[1] \in {"+", "-"} THEN SubSeq(text, 2, Len(text)) ELSE text

\* text is a decimal number: an optional sign and one or more digits, with spaces
\* around it at most.
IsDecimal(text) ==
    /\ Unsigned(Trimmed(text)) # <<>>
    /\ \A k \in 1..Len(Unsigned(Trimmed(text))) : isdigit(Unsigned(Trimmed(text))[k])

IsNegative(text) == Trimmed(text)[1] = "-"

\* The digits of the decimal number text without leading zeros.
Significant(text) ==
    IF \A k \in 1..Len(Unsigned(Trimmed(text))) : Unsigned(Trimmed(text))[k] = "0"
    THEN <<>>
    ELSE SubSeq(Unsigned(Trimmed(text)),
                CHOOSE a \in 1..Len(Unsigned(Trimmed(text))) :
                    /\ Unsigned(Trimmed(text))[a] # "0"
                    /\ \A j \in 1..(a - 1) : Unsigned(Trimmed(text))[j] = "0",
                Len(Unsigned(Trimmed(text))))

\* The digit string a denotes a number not above the one b denotes; neither has a
\* leading zero.
DigitsLeq(a, b) ==
    \/ Len(a) < Len(b)
    \/ /\ Len(a) = Len(b)
       /\ \/ a = b
          \/ \E k \in 1..Len(a) :
                Ord(a[k]) < Ord(b[k]) /\ \A j \in 1..(k - 1) : a[j] = b[j]

\* The decimal number text denotes a value of the signed 32-bit range.
InIntRange(text) ==
    DigitsLeq(Significant(text),
              IF IsNegative(text) THEN <<"2", "1", "4", "7", "4", "8", "3", "6", "4", "8">>
              ELSE <<"2", "1", "4", "7", "4", "8", "3", "6", "4", "7">>)

\* The number the first k digits of the digit string m denote.
RECURSIVE DecimalOf(_, _)
DecimalOf(m, k) ==
    IF k = 0 THEN 0 ELSE (DecimalOf(m, k - 1) * 10) + (Ord(m[k]) - 48)

\* The value the decimal number text denotes, for a text of the int range.
ExactValue(text) ==
    IF IsNegative(text)
    THEN IF Significant(text) = <<"2", "1", "4", "7", "4", "8", "3", "6", "4", "8">> THEN (0 - INT_MAX) - 1
         ELSE 0 - DecimalOf(Significant(text), Len(Significant(text)))
    ELSE DecimalOf(Significant(text), Len(Significant(text)))

\* The option is as it was defined and the error of the given category is raised.
IntRejected(category) ==
    /\ err.occurred /\ err.category = category
    /\ ~arguments[2].set
    /\ arguments[2].value = 5

\* The option holds the exact value of the token and no error is raised.
IntStoredExactly ==
    /\ ~err.occurred
    /\ arguments[2].set
    /\ arguments[2].value = ExactValue(Tok(argv, 2))

\* C20: integer conversion never clamps or truncates: a token whose value lies
\* outside the signed 32-bit range is rejected with RangeError, a malformed token
\* with TypeError, in both cases nothing is stored, and a token is accepted only
\* if the int stored equals its exact decimal value.
IntRangeErrorOrTypeError ==
    (pc = "rie_continue" /\ i = 2)
    => IF ~IsDecimal(Tok(argv, 2)) THEN IntRejected("APE_TYPE")
       ELSE IF ~InIntRange(Tok(argv, 2)) THEN IntRejected("APE_RANGE")
       ELSE IntStoredExactly

\* What does hold: a token outside the range and a malformed token are both
\* rejected with TypeError and nothing is stored; any other token is stored as its
\* exact decimal value.
IntRejectedOrExact ==
    (pc = "rie_continue" /\ i = 2)
    => IF ~IsDecimal(Tok(argv, 2)) \/ ~InIntRange(Tok(argv, 2)) THEN IntRejected("APE_TYPE")
       ELSE IntStoredExactly

\* The smallest int, written with a leading space, has been stored.
IntMinStored ==
    /\ pc = "rie_continue" /\ i = 2
    /\ argv[3] = <<" ">> \o <<"-", "2", "1", "4", "7", "4", "8", "3", "6", "4", "8">>
    /\ arguments[2].value = (0 - INT_MAX) - 1

(***************************************************************************)
(* The mode of the index                                                   *)
(***************************************************************************)

\* The index answers from the hash table.
HashedMode == hash_enabled /\ hash_table # NoTable

\* C21: the index is in linear mode while the Registry holds fewer than 16
\* definitions, the help option included, switches to hashed mode in the define
\* call that brings the count to 16, and stays hashed for the rest of the
\* Registry's life: no later define or parse reverts it.
HashedFromThresholdOn ==
    /\ [](pc # "freed"
          => /\ HashedMode <=> Len(arguments) >= ARGPARSE_HASH_THRESHOLD
             /\ hash_enabled <=> hash_table # NoTable
             /\ argument_count = Len(arguments))
    /\ [][(HashedMode /\ pc' # "freed") => HashedMode']_vars

\* A parse has returned in hashed mode, with a definition added behind the switch.
ParsedInHashedMode ==
    /\ HashedMode
    /\ pc = "done"
    /\ Len(arguments) = ARGPARSE_HASH_THRESHOLD + 1

(***************************************************************************)
(* The index up to and past its first resize                               *)
(***************************************************************************)

\* How many definitions the resize runs register at most, the help option
\* included: enough for more than 192 keys in the 256 buckets.
MaxResizeDefs == 99

\* How many of the last definitions of a resize run may have a short name only.
MaxShortOnly == 3

\* define with names no definition has yet; one of the last definitions may come
\* without a long name.
ResizeDefine ==
    /\ Len(arguments) < MaxResizeDefs
    /\ \E seed \in IF argument_count + 1 = ARGPARSE_HASH_THRESHOLD THEN Seeds
                   ELSE {<<0, 1>>} :
       \E long_name \in IF Len(arguments) >= MaxResizeDefs - MaxShortOnly
                        THEN {LongName(Len(arguments)), NULL}
                        ELSE {LongName(Len(arguments))} :
         AddArgument(ShortName(Len(arguments)), long_name, "ARG_INT", FALSE, <<>>, seed)

NextResize == ResizeDefine

SpecResize == Init /\ [][NextResize]_vars

\* The (key, definition) pairs the chains of table hold.
TableEntries(table) ==
    UNION { { <<table.buckets[b][n].key, table.buckets[b][n].argument>> :
                n \in 1..Len(table.buckets[b]) } : b \in 1..table.capacity }

\* How many entries the chains of table hold.
RECURSIVE ChainTotal(_, _, _)
ChainTotal(table, lo, hi) ==
    IF lo > hi THEN 0
    ELSE IF lo = hi THEN Len(table.buckets[lo])
    ELSE ChainTotal(table, lo, (lo + hi) \div 2)
         + ChainTotal(table, ((lo + hi) \div 2) + 1, hi)

\* C22: in hashed mode the table holds exactly one entry for every distinct
\* registered name and no other key, every entry points to a definition of the
\* Registry, table.size is the number of entries, and a resize keeps the set of
\* (key, definition) pairs while it doubles the capacity.
TableHoldsRegisteredNames ==
    HashedMode
    => /\ { e[1] : e \in TableEntries(hash_table) } = RegisteredNames
       /\ ChainTotal(hash_table, 1, hash_table.capacity) = Cardinality(RegisteredNames)
       /\ hash_table.size = ChainTotal(hash_table, 1, hash_table.capacity)
       /\ \A e \in TableEntries(hash_table) :
             e[2] \in 1..Len(arguments) /\ e[1] \in NamesOf(arguments[e[2]])
       /\ TableEntries(hash_table_resize(hash_table)) = TableEntries(hash_table)
       /\ hash_table_resize(hash_table).capacity = 2 * hash_table.capacity
       /\ hash_table_resize(hash_table).size = hash_table.size
       /\ hash_table.capacity
             \in {ARGPARSE_HASH_TABLE_SIZE, 2 * ARGPARSE_HASH_TABLE_SIZE}

\* The table has been resized and holds an entry for every registered name.
TableResized ==
    /\ HashedMode
    /\ hash_table.capacity = 2 * ARGPARSE_HASH_TABLE_SIZE
    /\ hash_table.size = Cardinality(RegisteredNames)
    /\ Len(arguments) = MaxResizeDefs

\* C26: after every completed insert into the hashed index size/capacity <= 0.75:
\* the insert that pushes the load factor above 0.75 doubles the capacity before
\* it returns.
LoadFactorKeptAfterInsert ==
    HashedMode => hash_table.size * LOAD_DEN <= LOAD_NUM * hash_table.capacity

\* What does hold: the load factor is checked before the new entry is added, so
\* it is the table without its newest entry that is within 0.75.
LoadFactorKeptBeforeInsert ==
    HashedMode => (hash_table.size - 1) * LOAD_DEN <= LOAD_NUM * hash_table.capacity

(***************************************************************************)
(* The error state across the accessors                                    *)
(***************************************************************************)

\* C24: an error state set by an operation, HelpRequested set by parse included,
\* stays as it is after the call has returned; the scalar accessor get_int does
\* not change it.
ErrorStateKeptByGetInt ==
    [][ret'.op = "get_int" => err' = err]_vars

\* What does hold: outside parse and the define calls the error state changes
\* only in an accessor call, which leaves it cleared (the names asked for are
\* not empty).
ErrorStateClearedByGetInt ==
    [][(pc = "done" /\ err' # err) => (ret'.op = "get_int" /\ err' = error_clear)]_vars

\* parse has returned with HelpRequested, and a get_int call behind it has left
\* no error.
HelpRequestedLostByGetInt ==
    /\ pc = "done" /\ help_requested
    /\ ret.op = "get_int"
    /\ ~err.occurred

(***************************************************************************)
(* Define calls during which an allocation of the index fails              *)
(***************************************************************************)

\* How many definitions the runs with failing allocations register at most, the
\* help option included.
MaxOomDefs == 18

\* A call of argparse_add_argument during which the allocations of the blocks fail
\* return NULL.
AddArgumentOom(short_name, long_name, type, required, default_value, seed, fail) ==
    /\ pc = "ready"
    /\ Install(add_argument([Parser EXCEPT !.heap.fail = fail], short_name, long_name,
                            type, required, default_value, seed))
    /\ DefineFrame

\* The allocations of the index that can fail in the define call that appends the
\* Argument with the names short_name and long_name: none; if the table is due to
\* be built, the table, its bucket array, or the entry of the help option; if a
\* table is due or there, the entry or the key copy of one of the new names.
IndexFails(short_name, long_name) ==
    {{}}
    \cup (IF hash_table = NoTable /\ argument_count + 1 >= ARGPARSE_HASH_THRESHOLD
          THEN { {Block("table", 0, 0, <<>>)}, {Block("buckets", 0, 0, <<>>)},
                 {Block("entry", 0, 0, <<"-", "h">>)} }
          ELSE {})
    \cup (IF hash_table # NoTable \/ argument_count + 1 >= ARGPARSE_HASH_THRESHOLD
          THEN { {Block("entry", 0, 0, short_name)}, {Block("key", 0, 0, long_name)} }
          ELSE {})

\* define with names no definition has yet, with or without a failing allocation.
OomDefine ==
    /\ Len(arguments) < MaxOomDefs
    /\ \E seed \in IF hash_table = NoTable /\ argument_count + 1 >= ARGPARSE_HASH_THRESHOLD
                   THEN Seeds ELSE {<<0, 1>>} :
       \E fail \in IndexFails(ShortName(Len(arguments)), LongName(Len(arguments))) :
         AddArgumentOom(ShortName(Len(arguments)), LongName(Len(arguments)), "ARG_INT",
                        FALSE, <<>>, seed, fail)

NextOom == OomDefine

SpecOom == Init /\ [][NextOom]_vars

\* find(name) returns a definition that carries the name, for every registered name.
FindsEveryName ==
    \A name \in RegisteredNames :
        /\ hash_find_argument(Parser, name) # 0
        /\ name \in NamesOf(arguments[hash_find_argument(Parser, name)])
        /\ hash_is_argument(Parser, name)

\* C23: an allocation that fails while the hash table is created, populated,
\* resized or inserted into is reported as MemoryError, and in every state behind
\* such a failure find(name) returns the definition of every registered name and
\* is_known(name) is true for it.
IndexFailureKeepsLookups ==
    /\ []FindsEveryName
    /\ [][heap'.fail # {} => (err'.occurred /\ err'.category = "APE_MEMORY")]_vars

\* What does hold: a table or bucket array that cannot be allocated is reported as
\* MemoryError and leaves the index in linear mode, where every name is found.
TableFailureKeepsLinear ==
    [][{Block("table", 0, 0, <<>>), Block("buckets", 0, 0, <<>>)} \cap heap'.fail # {}
       => (/\ err'.occurred /\ err'.category = "APE_MEMORY"
           /\ ~HashedMode'
           /\ FindsEveryName')]_vars

(***************************************************************************)
(* Parses during which the allocation of a list node fails                 *)
(***************************************************************************)

\* How many tokens the argument vectors of these runs hold at most behind the
\* program name, and how many append_to_list calls one token can make.
MaxOomArgs == 3
MaxOomAppends == 2

OomTokens ==
    { <<"-", "n">>, <<"1">>, <<"2", ",", "3">>, <<"-", "v">>,
      <<"-", "-", "n", "u", "m", "s", "=", "4", ",", "5">> }

\* The node allocations that fail in one parse: none, or that of one append.
NodeFailures ==
    {{}} \cup { {Block("node", n, m, <<>>)} : n \in 1..MaxOomArgs, m \in 1..MaxOomAppends }

NodeOomDefine == \E e \in ListPool : ~Defined(e) /\ Define(e)

NodeOomParse ==
    \E av \in Argvs(OomTokens, MaxOomArgs) : \E fail \in NodeFailures : ParseBeginOom(av, fail)

NextNodeOom ==
    \/ NodeOomDefine
    \/ NodeOomParse
    \/ ParseToken
    \/ ReturnIfError
    \/ ParseValidate

SpecNodeOom == Init /\ [][NextNodeOom]_vars

\* C25: in every state between the define call of a list option and
\* argparse_free, the states behind a failed allocation in append_to_list
\* included, the list's handle is there: arg->value is not NULL and the block it
\* points to is allocated.
ListHandleValid ==
    \A k \in 1..Len(arguments) :
        arguments[k].is_list
        => (arguments[k].handle /\ Block("value", k, 0, <<>>) \in heap.live)

\* What does hold: the handle is there as long as no node allocation has failed.
ListHandleValidUntilFailure ==
    heap.lost = 0 => ListHandleValid

\* parse has returned, without error, with the handle of a list option NULL and
\* the option marked as set.
ParsedWithNullHandle ==
    /\ pc = "done"
    /\ validated
    /\ ~err.occurred
    /\ \E k \in 1..Len(arguments) :
          arguments[k].is_list /\ ~arguments[k].handle /\ arguments[k].set

\* C27: a node allocation that fails while parse appends a value to a list leaves
\* MemoryError behind the step, and no later step of the parse clears it: a parse
\* that finishes without error has stored every value the command line supplied
\* for every list option.
NodeFailureStopsParse ==
    /\ [][heap'.lost > heap.lost => (err'.occurred /\ err'.category = "APE_MEMORY")]_vars
    /\ [](ParsedWithoutError /\ ~err.occurred
          => \A k \in 1..Len(arguments) :
                arguments[k].is_list => arguments[k].value = SuppliedFrom(1, k))

\* What does hold: the values stored are those supplied when no node allocation
\* has failed.
StoredAllWithoutFailure ==
    (ParsedWithoutError /\ heap.lost = 0)
    => \A k \in 1..Len(arguments) :
          arguments[k].is_list => arguments[k].value = SuppliedFrom(1, k)

\* What does hold: a node allocation that fails for a sub-token of a
\* delimiter-joined value leaves MemoryError behind the step.
JoinedNodeFailureReported ==
    [][(/\ heap'.lost > heap.lost
        /\ is_gnu_argument(arguments, Tok(argv, i)) # 0)
       => (err'.occurred /\ err'.category = "APE_MEMORY")]_vars

\* parse has returned without error although a value it consumed was dropped.
ParsedWithDroppedValue ==
    /\ ParsedWithoutError
    /\ ~err.occurred
    /\ heap.lost > 0

(***************************************************************************)
(* Scalar values that do not convert                                       *)
(***************************************************************************)

\* How many tokens the argument vectors of these runs hold at most behind the
\* program name.
MaxConvertArgs == 3

\* The size of lower_val in parse_single_value: char lower_val[64].
LOWER_VAL_SIZE == 64

\* A boolean inline value of LOWER_VAL_SIZE characters.
BoolTooLong == <<"-", "b", "=">> \o [j \in 1..LOWER_VAL_SIZE |-> "y"]

ConvertTokens ==
    { <<"-", "r">>, <<"-", "x">>, <<"-", "b">>, <<"7">>, <<"x">>,
      <<"-", "r", "=", "x">>, <<"-", "x", "=", "y">>,
      <<"-", "b", "=", "m", "a", "y", "b", "e">>, BoolTooLong }

\* The n-th define call of these runs: an int with the default 5, a double and a
\* boolean, each with the suffix '='.
ConvertDefine ==
    /\ Len(arguments) < 4
    /\ IF Len(arguments) = 1
       THEN AddArgumentEx(<<"-", "r">>, <<"-", "-", "r", "o", "u", "n", "d">>, "ARG_INT",
                          FALSE, <<5>>, "=", <<0, 1>>)
       ELSE IF Len(arguments) = 2
       THEN AddArgumentEx(<<"-", "x">>, NULL, "ARG_DOUBLE", FALSE, <<>>, "=", <<0, 1>>)
       ELSE AddArgumentEx(<<"-", "b">>, NULL, "ARG_BOOL", FALSE, <<>>, "=", <<0, 1>>)

ConvertParse == \E av \in Argvs(ConvertTokens, MaxConvertArgs) : ParseBegin(av)

NextConvert ==
    \/ ConvertDefine
    \/ ConvertParse
    \/ ParseToken
    \/ ReturnIfError
    \/ ParseValidate

SpecConvert == Init /\ [][NextConvert]_vars

\* C28: a loop turn of argparse_parse in which the value of a scalar option does
\* not convert (TypeError or RangeError, the value being the following token or
\* the inline value of a GNU-joined token) leaves the value and the set flag of
\* that definition, and every other definition, as they were.
FailedConversionChangesNothing ==
    [][(/\ pc = "scan"
        /\ pc' = "rie_continue"
        /\ err'.occurred
        /\ err'.category \in {"APE_TYPE", "APE_RANGE"})
       => arguments' = arguments]_vars

\* The int option holds the value 7 given earlier on the command line behind a
\* GNU-joined value for it that did not convert.
FailedConversionKeptValue ==
    /\ pc = "rie_continue"
    /\ err.occurred
    /\ err.category = "APE_TYPE"
    /\ Tok(argv, i) = <<"-", "r", "=", "x">>
    /\ Len(arguments) >= 2
    /\ arguments[2].set
    /\ arguments[2].value = 7

(***************************************************************************)
(* The cursor of argparse_parse and the end of the scan                    *)
(***************************************************************************)

\* How many tokens the argument vectors of these runs hold at most behind the
\* program name.
MaxScanArgs == 3

ScanTokens == { <<"-", "n">>, <<"1">>, <<"-", "r">>, <<"x">>, <<"-", "v">> }

\* The n-th define call of these runs: an int list, an int and a boolean.
ScanDefine ==
    /\ Len(arguments) < 4
    /\ IF Len(arguments) = 1
       THEN AddListArgument(<<"-", "n">>, NULL, "ARG_INT_LIST", FALSE, <<0, 1>>)
       ELSE IF Len(arguments) = 2
       THEN AddArgument(<<"-", "r">>, NULL, "ARG_INT", FALSE, <<>>, <<0, 1>>)
       ELSE AddArgument(<<"-", "v">>, NULL, "ARG_BOOL", FALSE, <<>>, <<0, 1>>)

ScanParse == \E av \in Argvs(ScanTokens, MaxScanArgs) : ParseBegin(av)

NextScan ==
    \/ ScanDefine
    \/ ScanParse
    \/ ParseToken
    \/ ReturnIfError
    \/ ParseValidate

\* argparse_parse is one sequential call: once entered, each of its steps is taken
\* when it can be.
SpecScan ==
    /\ Init
    /\ [][NextScan]_vars
    /\ WF_vars(ParseToken)
    /\ WF_vars(ReturnIfError)
    /\ WF_vars(ParseValidate)

\* parse is inside its call: in the for loop or at an APE_RETURN_IF_ERROR.
Parsing == pc \in {"scan", "rie_continue", "rie_return"}

\* The cursor over one step of argparse_parse: it starts at 1; a loop turn at the
\* token i leaves it on the last token the turn read, i or a value token behind i,
\* none of the tokens read behind i being a registered name; a scalar option reads
\* at most one value token, a list option the whole run behind it; the continue
\* moves it one token on, and nothing else moves it.
CursorStep ==
    /\ (pc = "ready" /\ pc' # "ready" /\ pc' # "freed") => i' = 1
    /\ (pc = "scan" /\ i < Len(argv))
       => (/\ i' >= i
           /\ i' < Len(argv)
           /\ \A n \in (i + 1)..i' : ~hash_is_argument(Parser, Tok(argv, n))
           /\ i' > i => (ListOptionAt(i) \/ ScalarOptionAt(i))
           /\ ScalarOptionAt(i) => i' <= i + 1
           /\ (ListOptionAt(i) /\ ~err'.occurred) => (i' > i /\ i' = RunEnd(i + 1) - 1))
    /\ (pc = "scan" /\ i >= Len(argv)) => i' = i
    /\ (pc = "rie_continue" /\ pc' = "scan") => i' = i + 1
    /\ (pc \in {"rie_continue", "rie_return"} /\ pc' # "scan") => i' = i

\* C29: parse terminates; its cursor starts at 1 and is strictly greater at every
\* new turn of the scan loop, a list option leaving it on the last value of its
\* run; the turn at the token i reads the tokens i..i' and the next turn starts at
\* i' + 1, so every token up to the point where parse stops is read by exactly
\* one turn, as the option token or as a value of the option in front of its run.
ParseTerminatesCursorAdvances ==
    /\ [][CursorStep]_vars
    /\ Parsing ~> (pc \in {"done", "exited"})

\* parse has returned after a list option took a run of two value tokens.
ScannedPastRun ==
    /\ pc = "done"
    /\ validated
    /\ Len(argv) = 4
    /\ i = 4
    /\ ListOptionAt(1)
    /\ RunEnd(2) = 4
    /\ Len(arguments[hash_find_argument(Parser, Tok(argv, 1))].value) >= 2

(***************************************************************************)
(* One list element as a token of its own and as a joined sub-token        *)
(***************************************************************************)

\* The sizes of token_buf in parse_list_with_delimiter: char token_buf[32] for an
\* int element, char token_buf[64] for a double element.
INT_TOKEN_BUF == 32
DOUBLE_TOKEN_BUF == 64

\* The number 7 written with n characters: zeros in front.
ZeroPadded(n) == SubSeq([j \in 1..n |-> IF j = n THEN "7" ELSE "0"], 1, n)

ElementTexts ==
    { <<"7">>, <<"x">>, <<" ", "7">>, <<"-", "5">>, <<"7", "x">>,
      <<"2", "1", "4", "7", "4", "8", "3", "6", "4", "8">>,
      ZeroPadded(INT_TOKEN_BUF - 1), ZeroPadded(INT_TOKEN_BUF),
      ZeroPadded(DOUBLE_TOKEN_BUF - 1), ZeroPadded(DOUBLE_TOKEN_BUF) }

\* The n-th define call of these runs: an int list and a double list, each with
\* the suffix '=' and the delimiter ','.
ElementDefine ==
    /\ Len(arguments) < 3
    /\ IF Len(arguments) = 1
       THEN AddListArgumentEx(<<"-", "n">>, <<"-", "-", "n", "u", "m", "s">>, "ARG_INT_LIST",
                              FALSE, "=", ",", <<0, 1>>)
       ELSE AddListArgumentEx(<<"-", "d">>, <<"-", "-", "d", "b", "l">>, "ARG_DOUBLE_LIST",
                              FALSE, "=", ",", <<0, 1>>)

\* parse of one element text behind the option name, or joined to it.
ElementParse ==
    \E text \in ElementTexts :
      \E av \in { <<Prog, <<"-", "n">>, text>>, <<Prog, <<"-", "d">>, text>>,
                  <<Prog, <<"-", "-", "n", "u", "m", "s", "=">> \o text>>,
                  <<Prog, <<"-", "-", "d", "b", "l", "=">> \o text>> } :
        ParseBegin(av)

NextElement ==
    \/ ElementDefine
    \/ ElementParse
    \/ ParseToken
    \/ ReturnIfError
    \/ ParseValidate

SpecElement == Init /\ [][NextElement]_vars

\* The element came as a token of its own behind the option name.
ElementSeparate == Len(argv) = 3

\* The list option the command line of these runs names, 0 if it is not defined.
ElementOption ==
    IF ElementSeparate THEN hash_find_argument(Parser, Tok(argv, 1))
    ELSE is_gnu_argument(arguments, Tok(argv, 1))

\* The element text of the command line.
ElementText ==
    IF ElementSeparate THEN Tok(argv, 2)
    ELSE gnu_value(arguments[ElementOption], Tok(argv, 1))

\* What the other form makes of the element text: the switch of
\* parse_list_with_delimiter for a text that came as a token of its own, the
\* switch of parse_list_values for a text that came joined.
ElementOtherForm ==
    IF ElementSeparate THEN parse_list_token(arguments[ElementOption], ElementText)
    ELSE list_value(arguments[ElementOption], ElementText)

\* The loop turn that read the element is over.
ElementRead == pc = "rie_continue" /\ Len(argv) > 1 /\ ElementOption # 0

\* The stored outcome is the outcome of the other form: rejected in both, or
\* accepted in both with the value stored.
ElementSameOutcome ==
    IF err.occurred THEN ~ElementOtherForm.valid
    ELSE /\ ElementOtherForm.valid
         /\ arguments[ElementOption].value = <<ElementOtherForm.val>>

\* C30: an element text of an int or double list has the same outcome as a value
\* token of its own and as a sub-token of a joined value: accepted with the same
\* value in both forms or rejected in both, texts of 32 or more characters (int)
\* or 64 or more characters (double) included.
ElementSameInBothForms == ElementRead => ElementSameOutcome

\* What does hold: the outcome is the same for the texts that fit token_buf.
ElementSameWhenShort ==
    (/\ ElementRead
     /\ Len(ElementText) < IF arguments[ElementOption].type = "ARG_INT_LIST"
                           THEN INT_TOKEN_BUF ELSE DOUBLE_TOKEN_BUF)
    => ElementSameOutcome

\* An int element of 32 characters was accepted as a token of its own.
LongElementAccepted ==
    /\ ElementRead
    /\ ElementSeparate
    /\ ~err.occurred
    /\ ElementText = ZeroPadded(INT_TOKEN_BUF)
    /\ arguments[ElementOption].value = <<7>>

\* The same element was rejected with APE_RANGE as a joined value.
LongElementRejected ==
    /\ ElementRead
    /\ ~ElementSeparate
    /\ err.occurred
    /\ err.category = "APE_RANGE"
    /\ ElementText = ZeroPadded(INT_TOKEN_BUF)

====
